---- MODULE Spec2Model ----
(***************************************************************************)
(* Model of the live trading engine.                                       *)
(*                                                                         *)
(*  - trading::utils::ConcurrentQueue (bounded ring, cell sequence         *)
(*    numbers, atomic wait / notify_one), one atomic operation per step.   *)
(*  - trading::core::OrderBook and MatchingEngine, and the subscriber      *)
(*    callback TradingEngine::processOrderFromQueue.                       *)
(*                                                                         *)
(* Quantities and prices are doubles in the source; the model uses small   *)
(* naturals (every value used is exactly representable).                   *)
(***************************************************************************)
EXTENDS Integers, Sequences, FiniteSets, TLC

(***************************************************************************)
(* Bounds of the model.                                                    *)
(***************************************************************************)
NumProducers == 2
MaxEnqueues == 4
MaxCapacityArg == 2
NumLapProducers == 3
MaxLapEnqueues == 5

\* the producer threads of a run
Producers == 1..NumProducers

\* the producer threads of a run in which two laps of the ring wait on one cell
LapProducers == 1..NumLapProducers

\* the capacities the queue is constructed with
CapacityArgs == 2..MaxCapacityArg

(***************************************************************************)
(* ConcurrentQueue                                                         *)
(***************************************************************************)
VARIABLES
    capacity_,      \* ConcurrentQueue::capacity_
    enqueue_pos_,   \* atomic enqueue_pos_
    dequeue_pos_,   \* atomic dequeue_pos_
    sequence,       \* buffer_[i].sequence
    storage,        \* buffer_[i].storage: the value held, NoValue once moved out
    ppc,            \* position of each producer thread inside enqueue
    ppos,           \* enqueue's local pos of each producer
    pseq,           \* enqueue's local current_seq of each producer
    pcount,         \* number of enqueue calls each producer has started
    cpc,            \* position of the consumer thread inside try_dequeue
    cpos,           \* try_dequeue's local pos
    cval,           \* try_dequeue's out parameter while the call runs
    dequeued,       \* values returned by successful try_dequeue calls, in order
    claimed,        \* values in the order their producers claimed positions
    spc,            \* position of a thread inside size()
    s_enq,          \* size()'s local enqueue_pos
    size_result     \* last value returned by size()

qvars == <<capacity_, enqueue_pos_, dequeue_pos_, sequence, storage, ppc, ppos,
           pseq, pcount, cpc, cpos, cval, dequeued, claimed, spc, s_enq,
           size_result>>

(***************************************************************************)
(* OrderBook, MatchingEngine and the subscriber callback                   *)
(***************************************************************************)
VARIABLES
    orders,         \* the Order objects created so far (shared_ptr targets)
    submitted,      \* the quantity each Order object was created with
    buy_orders_,    \* OrderBook::buy_orders_: price -> list of orders
    sell_orders_,   \* OrderBook::sell_orders_: price -> list of orders
    trades,         \* every Trade returned by matchOrder so far, in order
    total_trades_,  \* MatchingEngine::total_trades_
    total_volume_,  \* MatchingEngine::total_volume_
    next_trade_id_, \* MatchingEngine::next_trade_id_
    last_match,     \* the last matchOrder call: order, opposite side, trades
    handled,        \* number of calls made / messages handled so far
    users_          \* MatchingEngine::users_: user id -> User

evars == <<orders, submitted, buy_orders_, sell_orders_, trades, total_trades_,
           total_volume_, next_trade_id_, last_match, handled, users_>>

(***************************************************************************)
(* A User object driven through its own interface                          *)
(***************************************************************************)
VARIABLES
    user,           \* the User: cash_balance_, realized_pnl_, symbol_to_position_
    user_call,      \* the last call on the User: arguments, result, User before
    bought,         \* per symbol: quantity and cost of the BUYs applied so far
    sold,           \* per symbol: whether a SELL has been applied
    user_calls      \* number of calls made on the User

uvars == <<user, user_call, bought, sold, user_calls>>

VARIABLES
    requests,       \* the POST /order requests of the clients, by number
    accepted,       \* the requests whose connection the server has accepted
    tasks,          \* ThreadPool::tasks: accepted requests no worker has taken
    worker,         \* per worker of the pool: the request it handles, or none
    published,      \* the requests in the order of their publish calls
    partitions,     \* per partition of the bus: the messages not consumed yet
    processed       \* the requests in the order the subscriber handled them

ivars == <<requests, accepted, tasks, worker, published, partitions, processed>>

VARIABLES
    stop,           \* ThreadPool::stop
    pool_tasks,     \* ThreadPool::tasks: the tasks enqueued and not taken
    workers,        \* per worker thread: where it is and the task it holds
    enqueue_pc,     \* where the thread calling enqueue is
    enqueued,       \* number of enqueue calls that returned
    started,        \* per task: how many times a worker began to run it
    finished,       \* the tasks whose run has ended
    pool_pc,        \* where the thread running ~ThreadPool is
    joined,         \* number of workers ~ThreadPool has joined
    left_at_stop    \* number of tasks in the queue when ~ThreadPool set stop

pvars == <<stop, pool_tasks, workers, enqueue_pc, enqueued, started, finished,
           pool_pc, joined, left_at_stop>>

VARIABLES
    done_,          \* AsyncLogger::done_
    log_queue_,     \* AsyncLogger::log_queue_
    written,        \* the messages written to the log file, in order
    run_pc,         \* where the worker thread of the logger is in run()
    loggers,        \* per logging thread: where it is in addLog
    completed,      \* the messages whose addLog call has returned
    logged,         \* number of addLog calls begun
    stoppers,       \* per stopping thread: where it is in stop()
    before_stop     \* per stopping thread: the messages whose addLog had
                    \* returned when its stop() call began

lvars == <<done_, log_queue_, written, run_pc, loggers, completed, logged,
           stoppers, before_stop>>

VARIABLES
    instrument_stats_,  \* StatisticsCollector::instrument_stats_
    stats_log,          \* the trade events processed so far, in order
    running_,           \* StatisticsCollector::running_
    stop_requested_,    \* StatisticsCollector::stop_requested_
    collector_pc,       \* where the collector thread is in collectorLoop
    total_trades_processed_,
    total_trades_dropped_,
    submits,            \* per submitting thread: where it is in submitTradeEvent
    returned_true,      \* per submitting thread: number of submits that returned true
    acknowledged,           \* the events whose submit call has returned true
    stats_stop,         \* where the thread calling stop() is
    acknowledged_at_stop    \* the events acknowledged when stop() returned

svars == <<instrument_stats_, stats_log, running_, stop_requested_,
           collector_pc, total_trades_processed_, total_trades_dropped_,
           submits, returned_true, acknowledged, stats_stop, acknowledged_at_stop>>

\* the variables of the collector thread and of its callers
cvars == <<running_, stop_requested_, collector_pc, total_trades_processed_,
           total_trades_dropped_, submits, returned_true, acknowledged, stats_stop,
           acknowledged_at_stop>>

VARIABLES
    stats_mutex_,   \* StatisticsCollector::stats_mutex_: its exclusive and shared owners
    update_turn,    \* 0, or 1 + the turns updateStatistics has made of its loop
    reader_pc,      \* per reading thread: the call it is in, once it holds the lock
    snapshots       \* the values returned by getStatsForSymbol and getAllStats

rvars == <<stats_mutex_, update_turn, reader_pc, snapshots>>

VARIABLES
    users_pc,       \* whether the user is in MatchingEngine::users_, or being added
    apply_pc,       \* where the subscriber thread is in applyExecution
    apply_result,   \* the User the call in progress ends with
    user_states,    \* the states of the User before and after each call
    board_pc,       \* where the thread serving the leaderboard request is
    board_cash,     \* the cash balance the request has read
    board,          \* what each leaderboard request has read of the user
    board_raced     \* a request has read users_ while it was being modified

bvars == <<users_pc, apply_pc, apply_result, user_states, board_pc, board_cash,
           board, board_raced>>

VARIABLES
    http_log,       \* per POST /order request handled: the body, the bus, the answer
    bus_log         \* the messages the bus has accepted, with the request they are of

hvars == <<http_log, bus_log>>

VARIABLES
    order_books_,   \* MatchingEngine::order_books_: the symbols that have a book
    msg_log,        \* the bus messages the handler has been called with
    subscriber_pc   \* whether the subscriber thread is running

mvars == <<order_books_, msg_log, subscriber_pc>>

VARIABLES
    route_log       \* the requests HttpServer::routeRequest has dispatched

tvars == <<route_log>>

VARIABLES
    engine_running_,\* TradingEngine::running_
    main_pc,        \* where main is: in start, in its loop, or returned
    start_log,      \* the steps of TradingEngine::start, as they begin and end
    handler_pc,     \* where each invocation of signalHandler is
    handler_thread, \* the thread each invocation of signalHandler interrupts
    stop_log,       \* the steps of each call of TradingEngine::stop
    stops_completed,\* the calls of TradingEngine::stop that ran to their end
    aborted,        \* an exception left a signal handler: std::terminate
    loggers_started,\* the async loggers of the engine run
    http_running_,  \* HttpServer::running_
    stop_flag_,     \* HttpServer::stop_flag_
    server_pc,      \* where the server thread of HttpServer is
    collector_running,\* StatisticsCollector::running_ of the engine's collector
    connected_,     \* QueueClient::connected_
    bus_running_,   \* QueueClient::running_
    subscribed,     \* order-requests has its handler
    message_pc,     \* where the message thread of QueueClient is
    deliveries,     \* for every emitted trade, the sinks handleTrade gave it to
    client_requests,\* the client requests the server thread accepted
    pool_queued,    \* the client requests waiting in the pool of the server
    client_pc,      \* where the pool thread of the server is
    publishes       \* what each publish of a client request found

gvars ==
    <<engine_running_, main_pc, start_log, handler_pc, handler_thread, stop_log,
      stops_completed, aborted, loggers_started, http_running_, stop_flag_,
      server_pc, collector_running, connected_, bus_running_, subscribed,
      message_pc, deliveries, client_requests, pool_queued, client_pc, publishes>>

VARIABLES
    add_log         \* the calls of OrderBook::addOrder: the order, the book before and after

avars == <<add_log>>

\* the services around the engine
svcvars == <<pvars, lvars, svars, rvars, bvars, hvars, mvars, tvars, gvars, avars>>

vars == <<qvars, evars, uvars, ivars, svcvars>>

\* all variables but those of the thread pool
not_pvars == <<qvars, evars, uvars, ivars, lvars, svars, rvars, bvars, hvars, mvars, tvars, gvars, avars>>

\* all variables but those of the logger
not_lvars == <<qvars, evars, uvars, ivars, pvars, svars, rvars, bvars, hvars, mvars, tvars, gvars, avars>>

\* all variables but those of the statistics collector and of its queue
not_svars == <<evars, uvars, ivars, pvars, lvars, rvars, bvars, hvars, mvars, tvars, gvars, avars>>

\* no thread pool
NoPool ==
    /\ stop = FALSE
    /\ pool_tasks = <<>>
    /\ workers = <<>>
    /\ enqueue_pc = "idle"
    /\ enqueued = 0
    /\ started = <<>>
    /\ finished = {}
    /\ pool_pc = "none"
    /\ joined = 0
    /\ left_at_stop = 0

\* no logger
NoLogger ==
    /\ done_ = FALSE
    /\ log_queue_ = <<>>
    /\ written = <<>>
    /\ run_pc = "none"
    /\ loggers = <<>>
    /\ completed = {}
    /\ logged = 0
    /\ stoppers = <<>>
    /\ before_stop = <<>>

\* a statistics collector that has processed nothing
NoStats ==
    /\ instrument_stats_ = <<>>
    /\ stats_log = <<>>
    /\ running_ = FALSE
    /\ stop_requested_ = FALSE
    /\ collector_pc = "none"
    /\ total_trades_processed_ = 0
    /\ total_trades_dropped_ = 0
    /\ submits = <<>>
    /\ returned_true = <<>>
    /\ acknowledged = {}
    /\ stats_stop = "idle"
    /\ acknowledged_at_stop = {}

\* nobody holds stats_mutex_ and nothing has been read
NoReaders ==
    /\ stats_mutex_ = [unique |-> FALSE, shared |-> {}]
    /\ update_turn = 0
    /\ reader_pc = <<>>
    /\ snapshots = <<>>

\* no leaderboard request and no call in progress on the User
NoBoard ==
    /\ users_pc = "none"
    /\ apply_pc = "idle"
    /\ apply_result = <<>>
    /\ user_states = {}
    /\ board_pc = "idle"
    /\ board_cash = 0
    /\ board = <<>>
    /\ board_raced = FALSE

\* no POST /order request has been handled
NoHttp ==
    /\ http_log = <<>>
    /\ bus_log = <<>>

\* no message has been delivered to the handler
NoMessages ==
    /\ order_books_ = {}
    /\ msg_log = <<>>
    /\ subscriber_pc = "none"

\* no request has been routed
NoRoutes ==
    /\ route_log = <<>>

\* no engine process: nothing started, no signal
NoLifecycle ==
    /\ engine_running_ = FALSE
    /\ main_pc = "none"
    /\ start_log = <<>>
    /\ handler_pc = <<>>
    /\ handler_thread = <<>>
    /\ stop_log = <<>>
    /\ stops_completed = 0
    /\ aborted = FALSE
    /\ loggers_started = FALSE
    /\ http_running_ = FALSE
    /\ stop_flag_ = FALSE
    /\ server_pc = "none"
    /\ collector_running = FALSE
    /\ connected_ = FALSE
    /\ bus_running_ = FALSE
    /\ subscribed = FALSE
    /\ message_pc = "none"
    /\ deliveries = <<>>
    /\ client_requests = 0
    /\ pool_queued = 0
    /\ client_pc = "none"
    /\ publishes = <<>>

\* addOrder was not called with orders of any symbol and side
NoAdds ==
    /\ add_log = <<>>

NoServices ==
    /\ NoPool /\ NoLogger /\ NoStats /\ NoReaders /\ NoBoard /\ NoHttp
    /\ NoMessages
    /\ NoRoutes
    /\ NoLifecycle
    /\ NoAdds

\* no HTTP server, no bus and no subscriber
NoIngress ==
    /\ requests = <<>>
    /\ accepted = {}
    /\ tasks = <<>>
    /\ worker = <<>>
    /\ published = <<>>
    /\ partitions = <<>>
    /\ processed = <<>>

NoValue == 0

\* the k-th value producer p enqueues
Item(p, k) == 10 * p + k

RECURSIVE PowerOfTwoFrom(_, _)
PowerOfTwoFrom(p, v) == IF p >= v THEN p ELSE PowerOfTwoFrom(2 * p, v)

\* smallest power of two >= v (the bit smear of v - 1, plus one), v >= 1
roundUpToPowerOfTwo(v) == PowerOfTwoFrom(1, v)

\* pos & capacity_mask_
Cell(pos) == pos % capacity_

Writable_NoWait(seq, pos) == seq <= pos

\* enqueue, line 61: the loop ends when the cell's sequence equals pos
Writable(seq, pos) == seq = pos

\* try_dequeue, line 83: the cell is published when its sequence is pos + 1
Readable(seq, pos) == seq = pos + 1

\* ConcurrentQueue(capacity): capacity 0 throws, so it is never a state;
\* the producer threads in threads have not called enqueue yet
StartQueueOf(threads, capacities) ==
    /\ \E c \in capacities : capacity_ = roundUpToPowerOfTwo(c)
    /\ enqueue_pos_ = 0
    /\ dequeue_pos_ = 0
    /\ sequence = [i \in 0..(capacity_ - 1) |-> i]
    /\ storage = [i \in 0..(capacity_ - 1) |-> NoValue]
    /\ ppc = [p \in threads |-> "idle"]
    /\ ppos = [p \in threads |-> 0]
    /\ pseq = [p \in threads |-> 0]
    /\ pcount = [p \in threads |-> 0]
    /\ cpc = "idle"
    /\ cpos = 0
    /\ cval = NoValue
    /\ dequeued = <<>>
    /\ claimed = <<>>
    /\ spc = "idle"
    /\ s_enq = 0
    /\ size_result = 0

\* a queue of one of the capacities the runs of the queue are made with
StartQueue(threads) == StartQueueOf(threads, CapacityArgs)

InitQueue == StartQueue(Producers)

\* enqueue, line 54: pos = enqueue_pos_.fetch_add(1); the run makes at most
\* max_enqueues calls of enqueue
EnqueueClaim(p, max_enqueues) ==
    /\ ppc[p] = "idle"
    /\ enqueue_pos_ < max_enqueues
    /\ pcount' = [pcount EXCEPT ![p] = @ + 1]
    /\ ppos' = [ppos EXCEPT ![p] = enqueue_pos_]
    /\ enqueue_pos_' = enqueue_pos_ + 1
    /\ claimed' = Append(claimed, Item(p, pcount[p] + 1))
    /\ ppc' = [ppc EXCEPT ![p] = "load"]
    /\ UNCHANGED <<capacity_, dequeue_pos_, sequence, storage, pseq, cpc, cpos,
                   cval, dequeued, spc, s_enq, size_result>>
    /\ UNCHANGED <<evars, uvars, ivars, svcvars>>

\* enqueue, line 61: current_seq = slot.sequence.load(); loop test
EnqueueLoad(p) ==
    /\ ppc[p] = "load"
    /\ IF ~Writable(sequence[Cell(ppos[p])], ppos[p])
       THEN /\ pseq' = [pseq EXCEPT ![p] = sequence[Cell(ppos[p])]]
            /\ ppc' = [ppc EXCEPT ![p] = "wait"]
       ELSE /\ pseq' = [pseq EXCEPT ![p] = 0]
            /\ ppc' = [ppc EXCEPT ![p] = "construct"]
    /\ UNCHANGED <<capacity_, enqueue_pos_, dequeue_pos_, sequence, storage, ppos,
                   pcount, cpc, cpos, cval, dequeued, claimed, spc, s_enq,
                   size_result>>
    /\ UNCHANGED <<evars, uvars, ivars, svcvars>>

\* enqueue, line 63: slot.sequence.wait(current_seq) compares the value with
\* current_seq: it returns when they differ and blocks when they are equal
EnqueueWait(p) ==
    /\ ppc[p] = "wait"
    /\ IF sequence[Cell(ppos[p])] # pseq[p]
       THEN /\ ppc' = [ppc EXCEPT ![p] = "load"]
            /\ pseq' = [pseq EXCEPT ![p] = 0]
       ELSE /\ ppc' = [ppc EXCEPT ![p] = "parked"]
            /\ pseq' = pseq
    /\ UNCHANGED <<capacity_, enqueue_pos_, dequeue_pos_, sequence, storage, ppos,
                   pcount, cpc, cpos, cval, dequeued, claimed, spc, s_enq,
                   size_result>>
    /\ UNCHANGED <<evars, uvars, ivars, svcvars>>

\* a blocked atomic wait may be unblocked spuriously; it then compares again
SpuriousWake(p) ==
    /\ ppc[p] = "parked"
    /\ ppc' = [ppc EXCEPT ![p] = "wait"]
    /\ UNCHANGED <<capacity_, enqueue_pos_, dequeue_pos_, sequence, storage, ppos,
                   pseq, pcount, cpc, cpos, cval, dequeued, claimed, spc, s_enq,
                   size_result>>
    /\ UNCHANGED <<evars, uvars, ivars, svcvars>>

\* enqueue, line 67: new (&slot.storage) T(std::move(value))
EnqueueConstruct(p) ==
    /\ ppc[p] = "construct"
    /\ storage' = [storage EXCEPT ![Cell(ppos[p])] = Item(p, pcount[p])]
    /\ ppc' = [ppc EXCEPT ![p] = "publish"]
    /\ UNCHANGED <<capacity_, enqueue_pos_, dequeue_pos_, sequence, ppos, pseq,
                   pcount, cpc, cpos, cval, dequeued, claimed, spc, s_enq,
                   size_result>>
    /\ UNCHANGED <<evars, uvars, ivars, svcvars>>

\* enqueue, line 70: slot.sequence.store(pos + 1)
EnqueuePublish(p) ==
    /\ ppc[p] = "publish"
    /\ sequence' = [sequence EXCEPT ![Cell(ppos[p])] = ppos[p] + 1]
    /\ ppc' = [ppc EXCEPT ![p] = "notify"]
    /\ UNCHANGED <<capacity_, enqueue_pos_, dequeue_pos_, storage, ppos, pseq,
                   pcount, cpc, cpos, cval, dequeued, claimed, spc, s_enq,
                   size_result>>
    /\ UNCHANGED <<evars, uvars, ivars, svcvars>>

\* the threads blocked in a wait on the sequence of cell c
Parked(c) == {q \in DOMAIN ppc : ppc[q] = "parked" /\ Cell(ppos[q]) = c}

\* the blocked waits a notification on cell c is bound to reach: those that
\* blocked on a value the sequence has since left
Eligible(c) == {q \in Parked(c) : pseq[q] # sequence[c]}

\* the sets of threads one notify_one on cell c may unblock: at least one of
\* the eligible waits, whichever the implementation picks; none when no
\* wait is eligible
NotifyOneChoices(c) ==
    IF Eligible(c) = {} THEN {{}} ELSE (SUBSET Eligible(c)) \ {{}}

\* slot.sequence.notify_one(): the unblocked waits compare the value again
Woken(pc, W) == [q \in DOMAIN pc |-> IF q \in W THEN "wait" ELSE pc[q]]

\* enqueue, line 73: slot.sequence.notify_one(), then return
EnqueueNotify(p) ==
    /\ ppc[p] = "notify"
    /\ \E W \in NotifyOneChoices(Cell(ppos[p])) :
          ppc' = [Woken(ppc, W) EXCEPT ![p] = "idle"]
    /\ ppos' = [ppos EXCEPT ![p] = 0]
    /\ UNCHANGED <<capacity_, enqueue_pos_, dequeue_pos_, sequence, storage,
                   pseq, pcount, cpc, cpos, cval, dequeued, claimed, spc, s_enq,
                   size_result>>
    /\ UNCHANGED <<evars, uvars, ivars, svcvars>>

\* try_dequeue, lines 78-85: load dequeue_pos_, load the cell's sequence;
\* return false when the cell is not published
TryDequeueCheck ==
    /\ cpc = "idle"
    /\ IF ~Readable(sequence[Cell(dequeue_pos_)], dequeue_pos_)
       THEN cpc' = "idle" /\ cpos' = 0
       ELSE cpc' = "move" /\ cpos' = dequeue_pos_
    /\ UNCHANGED <<capacity_, enqueue_pos_, dequeue_pos_, sequence, storage, ppc,
                   ppos, pseq, pcount, cval, dequeued, claimed, spc, s_enq,
                   size_result>>

\* try_dequeue called by a consumer that does nothing else
DequeueCheck ==
    /\ TryDequeueCheck
    /\ UNCHANGED <<evars, uvars, ivars, svcvars>>

\* try_dequeue, lines 87-93: value = std::move(*item); item->~T()
DequeueMove ==
    /\ cpc = "move"
    /\ cval' = storage[Cell(cpos)]
    /\ storage' = [storage EXCEPT ![Cell(cpos)] = NoValue]
    /\ cpc' = "release"
    /\ UNCHANGED <<capacity_, enqueue_pos_, dequeue_pos_, sequence, ppc, ppos,
                   pseq, pcount, cpos, dequeued, claimed, spc, s_enq, size_result>>
    /\ UNCHANGED <<evars, uvars, ivars, svcvars>>

\* try_dequeue, line 96: slot.sequence.store(pos + capacity_)
DequeueRelease ==
    /\ cpc = "release"
    /\ sequence' = [sequence EXCEPT ![Cell(cpos)] = cpos + capacity_]
    /\ cpc' = "notify"
    /\ UNCHANGED <<capacity_, enqueue_pos_, dequeue_pos_, storage, ppc, ppos,
                   pseq, pcount, cpos, cval, dequeued, claimed, spc, s_enq,
                   size_result>>
    /\ UNCHANGED <<evars, uvars, ivars, svcvars>>

\* try_dequeue, line 99: slot.sequence.notify_one()
DequeueNotify ==
    /\ cpc = "notify"
    /\ \E W \in NotifyOneChoices(Cell(cpos)) : ppc' = Woken(ppc, W)
    /\ cpc' = "advance"
    /\ UNCHANGED <<capacity_, enqueue_pos_, dequeue_pos_, sequence, storage, ppos,
                   pseq, pcount, cpos, cval, dequeued, claimed, spc, s_enq,
                   size_result>>
    /\ UNCHANGED <<evars, uvars, ivars, svcvars>>

\* try_dequeue, lines 102-103: dequeue_pos_.store(pos + 1); return true
TryDequeueAdvance ==
    /\ cpc = "advance"
    /\ dequeue_pos_' = cpos + 1
    /\ dequeued' = Append(dequeued, cval)
    /\ cval' = NoValue
    /\ cpc' = "idle"
    /\ cpos' = 0
    /\ UNCHANGED <<capacity_, enqueue_pos_, sequence, storage, ppc, ppos, pseq,
                   pcount, claimed, spc, s_enq, size_result>>

\* try_dequeue returns true to a consumer that does nothing else
DequeueAdvance ==
    /\ TryDequeueAdvance
    /\ UNCHANGED <<evars, uvars, ivars, svcvars>>

\* size(), line 108: enqueue_pos = enqueue_pos_.load()
SizeLoadEnqueue ==
    /\ spc = "idle"
    /\ s_enq' = enqueue_pos_
    /\ spc' = "loaded"
    /\ UNCHANGED <<capacity_, enqueue_pos_, dequeue_pos_, sequence, storage, ppc,
                   ppos, pseq, pcount, cpc, cpos, cval, dequeued, claimed,
                   size_result>>
    /\ UNCHANGED <<evars, uvars, ivars, svcvars>>

\* size(), lines 109-110: dequeue_pos = dequeue_pos_.load(); the difference or 0
SizeLoadDequeue ==
    /\ spc = "loaded"
    /\ size_result' = IF s_enq >= dequeue_pos_ THEN s_enq - dequeue_pos_ ELSE 0
    /\ s_enq' = 0
    /\ spc' = "idle"
    /\ UNCHANGED <<capacity_, enqueue_pos_, dequeue_pos_, sequence, storage, ppc,
                   ppos, pseq, pcount, cpc, cpos, cval, dequeued, claimed>>
    /\ UNCHANGED <<evars, uvars, ivars, svcvars>>

(***************************************************************************)
(* User: cash and positions                                                *)
(***************************************************************************)
MaxCash == 2
MaxFee == 1
MaxCalls == 3

Symbols == {"AAPL", "MSFT"}

\* the tolerance of User::applyExecution (1e-12) is the unit of quantity
Epsilon == 1

RECURSIVE GCD(_, _)
GCD(a, b) == IF b = 0 THEN a ELSE GCD(b, a % b)

Abs(x) == IF x < 0 THEN -x ELSE x

\* the number n / d, d > 0, in lowest terms
Ratio(n, d) == LET g == GCD(Abs(n), d) IN [n |-> n \div g, d |-> d \div g]

Zero == [n |-> 0, d |-> 1]

Whole(k) == [n |-> k, d |-> 1]

Times(r, k) == Ratio(r.n * k, r.d)

Plus(r, x) == Ratio(r.n * x.d + x.n * r.d, r.d * x.d)

Minus(r, x) == Ratio(r.n * x.d - x.n * r.d, r.d * x.d)

\* User::User(user_id, starting_cash)
NewUser(starting_cash) ==
    [cash_balance_ |-> starting_cash, realized_pnl_ |-> Zero,
     symbol_to_position_ |-> <<>>]

\* Position{}: quantity 0, average_price 0
NoPosition == [quantity |-> 0, average_price |-> Zero]

\* symbol_to_position_[symbol] = pos
SetPosition(u, symbol, pos) ==
    [u EXCEPT !.symbol_to_position_ =
        [k \in (DOMAIN u.symbol_to_position_) \cup {symbol} |->
            IF k = symbol THEN pos ELSE u.symbol_to_position_[k]]]

\* User::depositCash
depositCash(u, amount) ==
    IF amount <= 0 THEN [ok |-> FALSE, user |-> u]
    ELSE [ok |-> TRUE, user |-> [u EXCEPT !.cash_balance_ = @ + amount]]

\* User::withdrawCash
withdrawCash(u, amount) ==
    IF amount <= 0 \/ amount > u.cash_balance_ THEN [ok |-> FALSE, user |-> u]
    ELSE [ok |-> TRUE, user |-> [u EXCEPT !.cash_balance_ = @ - amount]]

InsufficientCash_NoFee(gross_amount, fee, cash) == gross_amount > cash

\* applyExecution, lines 45-46: total_cost > cash_balance_
InsufficientCash(gross_amount, fee, cash) == gross_amount + fee > cash

AveragePrice_LastFill(pos, executed_quantity, gross_amount) ==
    Ratio(gross_amount, executed_quantity)

\* applyExecution, lines 63-71: new_cost_basis / new_quantity
AveragePrice(pos, executed_quantity, gross_amount) ==
    LET previous_cost_basis == Times(pos.average_price, pos.quantity)
        new_cost_basis == Plus(previous_cost_basis, Whole(gross_amount))
    IN Ratio(new_cost_basis.n, new_cost_basis.d * (pos.quantity + executed_quantity))

\* applyExecution, line 84: executed_quantity > pos.quantity + 1e-12
Oversell(executed_quantity, quantity) == executed_quantity > quantity + Epsilon

AfterSell_NoClamp(pos, executed_quantity) ==
    IF pos.quantity - executed_quantity <= Epsilon
    THEN [quantity |-> pos.quantity - executed_quantity, average_price |-> Zero]
    ELSE [pos EXCEPT !.quantity = @ - executed_quantity]

AfterSell_NoReset(pos, executed_quantity) ==
    [pos EXCEPT !.quantity = @ - executed_quantity]

\* applyExecution, lines 95-99: the position after a SELL, reset when flat
AfterSell(pos, executed_quantity) ==
    IF pos.quantity - executed_quantity <= Epsilon
    THEN [quantity |-> 0, average_price |-> Zero]
    ELSE [pos EXCEPT !.quantity = @ - executed_quantity]

\* User::applyExecution: the value returned and the User after the call
applyExecution(u, side, symbol, executed_quantity, executed_price, fee) ==
    IF executed_quantity <= 0 \/ executed_price < 0 \/ fee < 0
    THEN [ok |-> FALSE, user |-> u]
    ELSE
    LET gross_amount == executed_quantity * executed_price
        found == symbol \in DOMAIN u.symbol_to_position_
    IN IF side = "BUY"
       THEN IF InsufficientCash(gross_amount, fee, u.cash_balance_)
            THEN [ok |-> FALSE, user |-> u]
            ELSE LET pos == IF found THEN u.symbol_to_position_[symbol]
                                     ELSE NoPosition
                     new_quantity == pos.quantity + executed_quantity
                 IN IF new_quantity <= 0
                    THEN [ok |-> FALSE, user |-> SetPosition(u, symbol, pos)]
                    ELSE [ok |-> TRUE,
                          user |-> [SetPosition(u, symbol,
                                       [quantity |-> new_quantity,
                                        average_price |->
                                            AveragePrice(pos, executed_quantity,
                                                         gross_amount)])
                                    EXCEPT !.cash_balance_ = @ - (gross_amount + fee)]]
       ELSE IF ~found
            THEN [ok |-> FALSE, user |-> u]
            ELSE LET pos == u.symbol_to_position_[symbol]
                     proceeds == gross_amount - fee
                     pnl == Minus(Whole(proceeds),
                                  Times(pos.average_price, executed_quantity))
                 IN IF Oversell(executed_quantity, pos.quantity)
                    THEN [ok |-> FALSE, user |-> u]
                    ELSE [ok |-> TRUE,
                          user |-> [SetPosition(u, symbol,
                                                AfterSell(pos, executed_quantity))
                                    EXCEPT !.realized_pnl_ = Plus(@, pnl),
                                           !.cash_balance_ = @ + proceeds]]

NoCall == [op |-> "none", side |-> "NONE", symbol |-> "NONE", quantity |-> 0,
           price |-> 0, fee |-> 0, ok |-> FALSE, before |-> NewUser(0)]

NoBuys == [s \in Symbols |-> [quantity |-> 0, cost |-> 0]]

\* a User constructed with some starting cash
StartUser(cash) ==
    /\ user = NewUser(cash)
    /\ user_call = NoCall
    /\ bought = NoBuys
    /\ sold = [s \in Symbols |-> FALSE]
    /\ user_calls = 0

InitUser == StartUser(0)

\* a call of user->applyExecution(side, symbol, q, p, fee)
ApplyExecution(side, symbol, q, p, fee) ==
    /\ user_calls < MaxCalls
    /\ user_calls' = user_calls + 1
    /\ \E r \in {applyExecution(user, side, symbol, q, p, fee)} :
          /\ user' = r.user
          /\ user_call' = [op |-> "applyExecution", side |-> side,
                           symbol |-> symbol, quantity |-> q, price |-> p,
                           fee |-> fee, ok |-> r.ok, before |-> user]
          /\ bought' = IF r.ok /\ side = "BUY"
                       THEN [bought EXCEPT ![symbol] =
                               [quantity |-> @.quantity + q, cost |-> @.cost + q * p]]
                       ELSE bought
          /\ sold' = IF r.ok /\ side = "SELL"
                     THEN [sold EXCEPT ![symbol] = TRUE] ELSE sold
    /\ UNCHANGED <<qvars, evars, ivars, svcvars>>

\* a call of user->depositCash(amount)
DepositCash(amount) ==
    /\ user_calls < MaxCalls
    /\ user_calls' = user_calls + 1
    /\ \E r \in {depositCash(user, amount)} :
          /\ user' = r.user
          /\ user_call' = [op |-> "depositCash", side |-> "NONE",
                           symbol |-> "NONE", quantity |-> amount, price |-> 0,
                           fee |-> 0, ok |-> r.ok, before |-> user]
    /\ UNCHANGED <<bought, sold, qvars, evars, ivars, svcvars>>

\* a call of user->withdrawCash(amount)
WithdrawCash(amount) ==
    /\ user_calls < MaxCalls
    /\ user_calls' = user_calls + 1
    /\ \E r \in {withdrawCash(user, amount)} :
          /\ user' = r.user
          /\ user_call' = [op |-> "withdrawCash", side |-> "NONE",
                           symbol |-> "NONE", quantity |-> amount, price |-> 0,
                           fee |-> 0, ok |-> r.ok, before |-> user]
    /\ UNCHANGED <<bought, sold, qvars, evars, ivars, svcvars>>

(***************************************************************************)
(* Order book and matching engine                                          *)
(***************************************************************************)
MaxOrders == 3
MaxQty == 2
MaxPrice == 2
NumUsers == 2

Users == 1..NumUsers

\* the limit prices orders are submitted with
Prices == 1..MaxPrice
Sides == {"BUY", "SELL"}
Types == {"LIMIT", "MARKET", "STOP"}

\* OrderValidator(): min_quantity_ and min_price_ in model units; the unit
\* of quantity is Epsilon, and min_quantity_ (0.01) is larger than it
min_quantity_ == 2
min_price_ == 1

\* the quantities orders are submitted with: the smallest one or a block
Quantities == {min_quantity_, MaxQty * min_quantity_}

\* the symbol of the book
BookSymbol == "AAPL"

\* getOrCreateUser(user_id): the starting cash of a user created on first use
DefaultStartingCash == 0

Min(a, b) == IF a <= b THEN a ELSE b

NoMatch == [order |-> 0, type |-> "NONE", side |-> "NONE", quantity |-> 0,
            price |-> 0, opposite |-> {}, trades |-> <<>>, portfolios |-> <<>>,
            callbacks |-> <<>>]

\* MatchingEngine() with an empty book, and the users added with addUser
StartEngine(users) ==
    /\ orders = <<>>
    /\ submitted = <<>>
    /\ buy_orders_ = <<>>
    /\ sell_orders_ = <<>>
    /\ trades = <<>>
    /\ total_trades_ = 0
    /\ total_volume_ = 0
    /\ next_trade_id_ = 1
    /\ last_match = NoMatch
    /\ handled = 0
    /\ users_ = users

InitEngine == StartEngine(<<>>)

Init == InitQueue /\ InitEngine /\ InitUser /\ NoIngress /\ NoServices

\* Order::Order(id, userId, symbol, type, side, quantity, price); the id is
\* the number of the object
NewOrder(n, u, t, s, q, p) ==
    [id |-> n, userId |-> u, type |-> t, side |-> s, quantity |-> q, price |-> p]

\* std::to_string of a decimal number, as its sequence of digits
RECURSIVE to_string(_)
to_string(n) == IF n < 10 THEN <<n>> ELSE Append(to_string(n \div 10), n % 10)

\* std::map::operator[] followed by push_back: the level is created when absent
PushBack(levels, price, o) ==
    IF price \in DOMAIN levels
    THEN [levels EXCEPT ![price] = Append(@, o)]
    ELSE [k \in (DOMAIN levels) \cup {price} |->
             IF k = price THEN <<o>> ELSE levels[k]]

\* OrderBook::removeOrder: no order is removed
removeOrder(levels, id) == levels

\* the keys of a level map in iteration order
RECURSIVE KeysInOrder(_, _)
KeysInOrder(keys, descending) ==
    IF keys = {} THEN <<>>
    ELSE LET first == IF descending
                      THEN CHOOSE k \in keys : \A j \in keys : j <= k
                      ELSE CHOOSE k \in keys : \A j \in keys : k <= j
         IN <<first>> \o KeysInOrder(keys \ {first}, descending)

RECURSIVE Concat(_, _)
Concat(levels, keyseq) ==
    IF keyseq = <<>> THEN <<>>
    ELSE levels[Head(keyseq)] \o Concat(levels, Tail(keyseq))

\* OrderBook::getBuyOrders: buy_orders_ is ordered by std::greater
getBuyOrders(buys) == Concat(buys, KeysInOrder(DOMAIN buys, TRUE))

\* OrderBook::getSellOrders
getSellOrders(sells) == Concat(sells, KeysInOrder(DOMAIN sells, FALSE))

\* OrderBook::getBestBid
getBestBid(buys) ==
    IF DOMAIN buys = {} THEN 0 ELSE Head(KeysInOrder(DOMAIN buys, TRUE))

\* OrderBook::getBestAsk
getBestAsk(sells) ==
    IF DOMAIN sells = {} THEN 0 ELSE Head(KeysInOrder(DOMAIN sells, FALSE))

RECURSIVE SumQuantity(_, _)
SumQuantity(ords, level) ==
    IF level = <<>> THEN 0
    ELSE ords[Head(level)].quantity + SumQuantity(ords, Tail(level))

RECURSIVE LevelsJSON(_, _, _)
LevelsJSON(ords, levels, keyseq) ==
    IF keyseq = <<>> THEN <<>>
    ELSE LET price == Head(keyseq)
             rest == LevelsJSON(ords, levels, Tail(keyseq))
         IN IF levels[price] # <<>>
            THEN <<[price |-> price,
                    quantity |-> SumQuantity(ords, levels[price])]>> \o rest
            ELSE rest

\* OrderBook::toJSON: the levels and the market data it serialises
toJSON(ords, buys, sells) ==
    [bids |-> LevelsJSON(ords, buys, KeysInOrder(DOMAIN buys, TRUE)),
     asks |-> LevelsJSON(ords, sells, KeysInOrder(DOMAIN sells, FALSE)),
     best_bid |-> getBestBid(buys),
     best_ask |-> getBestAsk(sells),
     spread |-> getBestAsk(sells) - getBestBid(buys)]

createTrade_PreIncrement(buy_order, sell_order, quantity, price, trade_no) ==
    [trade_id |-> to_string(trade_no + 1),
     buy_order_id |-> buy_order.id,
     sell_order_id |-> sell_order.id,
     buy_user_id |-> buy_order.userId,
     sell_user_id |-> sell_order.userId,
     quantity |-> quantity,
     price |-> price]

\* MatchingEngine::createTrade
createTrade(buy_order, sell_order, quantity, price, trade_no) ==
    [trade_id |-> to_string(trade_no),
     buy_order_id |-> buy_order.id,
     sell_order_id |-> sell_order.id,
     buy_user_id |-> buy_order.userId,
     sell_user_id |-> sell_order.userId,
     quantity |-> quantity,
     price |-> price]

\* the match test of matchLimitOrder and matchMarketOrder
CanMatch(side, opposite_price, price) ==
    \/ side = "BUY" /\ opposite_price <= price
    \/ side = "SELL" /\ opposite_price >= price

\* the matching loop of matchLimitOrder and matchMarketOrder over the copied
\* opposite side; st carries remaining_quantity, the resting orders, the book
\* side they rest in, the trades vector and next_trade_id_
RECURSIVE MatchLoop(_, _, _, _)
MatchLoop(opposite, order, price, st) ==
    IF opposite = <<>> \/ st.remaining <= 0 THEN st
    ELSE LET o == Head(opposite)
             opposite_order == st.ords[o]
         IN IF CanMatch(order.side, opposite_order.price, price)
            THEN LET trade_quantity == Min(st.remaining, opposite_order.quantity)
                     buy_order == IF order.side = "BUY" THEN order ELSE opposite_order
                     sell_order == IF order.side = "SELL" THEN order ELSE opposite_order
                     trade == createTrade(buy_order, sell_order, trade_quantity,
                                          price, st.next_id)
                     left == opposite_order.quantity - trade_quantity
                 IN MatchLoop(Tail(opposite), order, price,
                      [remaining |-> st.remaining - trade_quantity,
                       ords |-> [st.ords EXCEPT ![o].quantity = left],
                       levels |-> IF left <= 0
                                  THEN removeOrder(st.levels, opposite_order.id)
                                  ELSE st.levels,
                       trs |-> Append(st.trs, trade),
                       next_id |-> st.next_id + 1])
            ELSE MatchLoop(Tail(opposite), order, price, st)

\* the side of the book an order is matched against, and its copy in
\* priority order
OppositeLevels(order, buys, sells) == IF order.side = "BUY" THEN sells ELSE buys

OppositeOrders(order, buys, sells) ==
    IF order.side = "BUY" THEN getSellOrders(sells) ELSE getBuyOrders(buys)

StartMatch(order, ords, buys, sells, next_id) ==
    [remaining |-> order.quantity, ords |-> ords,
     levels |-> OppositeLevels(order, buys, sells), trs |-> <<>>,
     next_id |-> next_id]

matchLimitOrder_AtBestPrice(order, ords, buys, sells, next_id) ==
    MatchLoop(OppositeOrders(order, buys, sells), order,
              IF order.side = "BUY" THEN getBestAsk(sells) ELSE getBestBid(buys),
              StartMatch(order, ords, buys, sells, next_id))

\* MatchingEngine::matchLimitOrder: trades are priced at the order's price
matchLimitOrder(order, ords, buys, sells, next_id) ==
    MatchLoop(OppositeOrders(order, buys, sells), order, order.price,
              StartMatch(order, ords, buys, sells, next_id))

matchMarketOrder_AtOwnPrice(order, ords, buys, sells, next_id) ==
    MatchLoop(OppositeOrders(order, buys, sells), order, order.price,
              StartMatch(order, ords, buys, sells, next_id))

\* MatchingEngine::matchMarketOrder: best_price_order is read once, before
\* the loop
matchMarketOrder(order, ords, buys, sells, next_id) ==
    LET best_price_order == IF order.side = "BUY" THEN getBestAsk(sells)
                                                  ELSE getBestBid(buys)
    IN MatchLoop(OppositeOrders(order, buys, sells), order, best_price_order,
                 StartMatch(order, ords, buys, sells, next_id))

\* MatchingEngine::matchOrder
matchOrder(order, ords, buys, sells, next_id) ==
    IF order.type = "MARKET" THEN matchMarketOrder(order, ords, buys, sells, next_id)
    ELSE IF order.type = "LIMIT" THEN matchLimitOrder(order, ords, buys, sells, next_id)
    ELSE StartMatch(order, ords, buys, sells, next_id)

RECURSIVE Volume(_)
Volume(trs) ==
    IF trs = <<>> THEN 0
    ELSE Head(trs).quantity * Head(trs).price + Volume(Tail(trs))

\* MatchingEngine::getOrCreateUser: users with the user created when absent
getOrCreateUser(users, user_id) ==
    IF user_id \in DOMAIN users THEN users
    ELSE [k \in (DOMAIN users) \cup {user_id} |->
             IF k = user_id THEN NewUser(DefaultStartingCash) ELSE users[k]]

updateUserPortfolios_BuyerOnly(users, trade) ==
    LET created == getOrCreateUser(getOrCreateUser(users, trade.buy_user_id),
                                   trade.sell_user_id)
    IN [created EXCEPT ![trade.buy_user_id] =
           applyExecution(@, "BUY", BookSymbol, trade.quantity, trade.price, 0).user]

updateUserPortfolios_BuyerFirst(users, trade) ==
    LET created == getOrCreateUser(getOrCreateUser(users, trade.buy_user_id),
                                   trade.sell_user_id)
        buyer == applyExecution(created[trade.buy_user_id], "BUY", BookSymbol,
                                trade.quantity, trade.price, 0)
        bought_ == [created EXCEPT ![trade.buy_user_id] = buyer.user]
    IN IF ~buyer.ok THEN bought_
       ELSE [bought_ EXCEPT ![trade.sell_user_id] =
                applyExecution(@, "SELL", BookSymbol, trade.quantity,
                               trade.price, 0).user]

\* MatchingEngine::updateUserPortfolios with fee 0: the BUY leg, then the
\* SELL leg whatever the BUY leg returned
updateUserPortfolios(users, trade) ==
    LET created == getOrCreateUser(getOrCreateUser(users, trade.buy_user_id),
                                   trade.sell_user_id)
        buyer == applyExecution(created[trade.buy_user_id], "BUY", BookSymbol,
                                trade.quantity, trade.price, 0)
        bought_ == [created EXCEPT ![trade.buy_user_id] = buyer.user]
    IN [bought_ EXCEPT ![trade.sell_user_id] =
           applyExecution(@, "SELL", BookSymbol, trade.quantity,
                          trade.price, 0).user]

RECURSIVE Portfolios(_, _)
\* users_ before the first trade of trs and after each of them, in order
Portfolios(users, trs) ==
    IF trs = <<>> THEN <<users>>
    ELSE <<users>> \o Portfolios(updateUserPortfolios(users, Head(trs)), Tail(trs))

\* the orders resting in a level map, with the state they have in ords
Resting(ords, levels) ==
    {ords[levels[k][i]] : <<k, i>> \in
        UNION {{<<k, i>> : i \in 1..Len(levels[k])} : k \in DOMAIN levels}}

\* the loop after the matching of matchLimitOrder and matchMarketOrder:
\* total_trades_ += trades.size() comes first, then for every trade
\* total_volume_ grows, the portfolios are updated and trade_callback_ is
\* called; what getTotalTrades() and getTotalVolume() return in each call of
\* the callback, and the users it finds
Callbacks(total_trades, total_volume, portfolios, trs) ==
    [k \in 1..Len(trs) |->
        [getTotalTrades |-> total_trades + Len(trs),
         getTotalVolume |-> total_volume + Volume(SubSeq(trs, 1, k)),
         users |-> portfolios[k + 1]]]

\* the effect of one matchOrder call on the engine and the book, given the
\* book sides the order is matched against
ApplyMatch(order, ords, buys, sells) ==
    \E st \in {matchOrder(order, ords, buys, sells, next_trade_id_)} :
    \E after \in {Portfolios(users_, st.trs)} :
       /\ orders' = st.ords
       /\ users_' = after[Len(after)]
       /\ buy_orders_' = IF order.side = "BUY" THEN buys ELSE st.levels
       /\ sell_orders_' = IF order.side = "BUY" THEN st.levels ELSE sells
       /\ trades' = trades \o st.trs
       /\ total_trades_' = total_trades_ + Len(st.trs)
       /\ total_volume_' = total_volume_ + Volume(st.trs)
       /\ next_trade_id_' = st.next_id
       /\ last_match' = [order |-> order.id, type |-> order.type,
                         side |-> order.side, quantity |-> order.quantity,
                         price |-> order.price,
                         opposite |-> Resting(ords, OppositeLevels(order, buys, sells)),
                         trades |-> st.trs,
                         portfolios |-> after,
                         callbacks |-> Callbacks(total_trades_, total_volume_,
                                                 after, st.trs)]

\* OrderValidator::validate with no symbol list and the market open
validate(order) ==
    /\ order.quantity >= min_quantity_
    /\ order.type = "MARKET" \/ order.price >= min_price_

\* TradingEngine::processOrderFromQueue for a message that parses: the order
\* is validated, added to the book and then matched
HandleMessage(u, t, s, q, p) ==
    /\ handled' = handled + 1
    /\ LET price == IF t = "LIMIT" \/ t = "STOP" THEN p ELSE 0
           order == NewOrder(Len(orders) + 1, u, t, s, q, price)
       IN IF ~validate(order)
          THEN UNCHANGED <<orders, submitted, buy_orders_, sell_orders_, trades,
                           total_trades_, total_volume_, next_trade_id_,
                           last_match, users_>>
          ELSE /\ submitted' = Append(submitted, q)
               /\ ApplyMatch(order, Append(orders, order),
                    IF s = "BUY" THEN PushBack(buy_orders_, price, order.id)
                                 ELSE buy_orders_,
                    IF s = "SELL" THEN PushBack(sell_orders_, price, order.id)
                                  ELSE sell_orders_)

\* the handler of the subscription, called with one message of the bus
ProcessOrderFromQueue(u, t, s, q, p) ==
    /\ handled < MaxOrders
    /\ HandleMessage(u, t, s, q, p)
    /\ UNCHANGED <<qvars, uvars, ivars, svcvars>>

\* OrderBook::addOrder called directly with a new order of the book's symbol
AddOrder(u, t, s, q, p) ==
    /\ handled < MaxOrders
    /\ handled' = handled + 1
    /\ LET price == IF t = "LIMIT" THEN p ELSE 0
           order == NewOrder(Len(orders) + 1, u, t, s, q, price)
       IN /\ orders' = Append(orders, order)
          /\ submitted' = Append(submitted, q)
          /\ buy_orders_' = IF s = "BUY" THEN PushBack(buy_orders_, price, order.id)
                                         ELSE buy_orders_
          /\ sell_orders_' = IF s = "SELL" THEN PushBack(sell_orders_, price, order.id)
                                           ELSE sell_orders_
    /\ UNCHANGED <<trades, total_trades_, total_volume_, next_trade_id_,
                   last_match, users_>>
    /\ UNCHANGED <<qvars, uvars, ivars, svcvars>>

\* MatchingEngine::matchOrder called directly with a new order that is not
\* in the book
MatchOrder(u, t, s, q, p) ==
    /\ handled < MaxOrders
    /\ handled' = handled + 1
    /\ LET price == IF t = "LIMIT" THEN p ELSE 0
           order == NewOrder(Len(orders) + 1, u, t, s, q, price)
       IN /\ submitted' = Append(submitted, q)
          /\ ApplyMatch(order, Append(orders, order), buy_orders_, sell_orders_)
    /\ UNCHANGED <<qvars, uvars, ivars, svcvars>>

\* messages on the bus: any quantity and price, valid or not
NextEngine ==
    \E u \in Users, t \in Types, s \in Sides, q \in {0} \cup Quantities,
       p \in {0} \cup Prices :
        ProcessOrderFromQueue(u, t, s, q, p)

\* the subscriber thread handling the messages of the bus one by one
SpecEngine == Init /\ [][NextEngine]_vars

\* calls of one client of the library, with positive quantities and limit
\* prices: limit orders are put in the book, limit and market orders matched
NextBook ==
    \/ \E s \in Sides, q \in Quantities, p \in Prices :
          AddOrder(1, "LIMIT", s, q, p)
    \/ \E s \in Sides, q \in Quantities, p \in Prices :
          MatchOrder(1, "LIMIT", s, q, p)
    \/ \E s \in Sides, q \in Quantities :
          MatchOrder(1, "MARKET", s, q, 0)

\* addOrder and matchOrder called on one book and one engine
SpecBook == Init /\ [][NextBook]_vars

\* a queue of the smallest capacity that nobody uses
IdleQueue == InitQueue /\ \A c \in CapacityArgs : capacity_ <= roundUpToPowerOfTwo(c)

\* user 1 cannot pay for any order, the others can pay for the largest one
StartingCash(u) ==
    IF u = 1 THEN 0 ELSE MaxQty * min_quantity_ * MaxPrice

InitPortfolio ==
    /\ IdleQueue
    /\ StartEngine([u \in Users |-> NewUser(StartingCash(u))])
    /\ InitUser
    /\ NoIngress
    /\ NoServices

\* user->applyExecution(BUY, symbol, q, p, 0) called on a user of the engine
\* to give it a position
SeedPosition(u, q, p) ==
    /\ handled < MaxOrders
    /\ handled' = handled + 1
    /\ users_' = [users_ EXCEPT ![u] =
                     applyExecution(@, "BUY", BookSymbol, q, p, 0).user]
    /\ UNCHANGED <<orders, submitted, buy_orders_, sell_orders_, trades,
                   total_trades_, total_volume_, next_trade_id_, last_match>>
    /\ UNCHANGED <<qvars, uvars, ivars, svcvars>>

\* users with positions placing limit orders at one price
NextPortfolio ==
    \/ \E u \in Users, q \in {Epsilon, MaxQty * min_quantity_} :
          SeedPosition(u, q, min_price_)
    \/ \E u \in Users, s \in Sides, q \in Quantities :
          AddOrder(u, "LIMIT", s, q, MaxPrice)
    \/ \E u \in Users, s \in Sides, q \in Quantities :
          MatchOrder(u, "LIMIT", s, q, MaxPrice)

\* addOrder and matchOrder called on an engine whose users have cash and
\* positions
SpecPortfolio == InitPortfolio /\ [][NextPortfolio]_vars

(***************************************************************************)
(* Ingress: HttpServer and its ThreadPool, handleOrderRequest, the bus     *)
(* and the subscriber thread of QueueClient                                *)
(***************************************************************************)

NumRequests == 3
NumWorkers == 2
NumPartitions == 2

\* the number of requests of the per-user ordering scenario
FiveClients == 5

Workers == 1..NumWorkers
NoRequest == 0

\* the body of request r: a LIMIT order of the smallest valid quantity and
\* price, the sides alternate; a body that is not well formed has no userId
\* or no id
Request(r, user_id, well_formed) ==
    [id |-> r, userId |-> user_id, well_formed |-> well_formed,
     side |-> IF r % 2 = 1 THEN "SELL" ELSE "BUY",
     quantity |-> min_quantity_, price |-> min_price_]

\* requests 1 and 2 are of user 1, requests 3 and 4 of user 2, and so on
UserOfRequest(r) ==
    IF (r + 1) \div 2 <= NumUsers THEN (r + 1) \div 2 ELSE NumUsers

\* HttpServer(host, port, threads), QueueClient::connect and subscribe
StartIngress(reqs) ==
    /\ requests = reqs
    /\ accepted = {}
    /\ tasks = <<>>
    /\ worker = [w \in Workers |-> NoRequest]
    /\ published = <<>>
    /\ partitions = [k \in 1..NumPartitions |-> <<>>]
    /\ processed = <<>>

\* the server thread accepts the connection of request r and enqueues its
\* handling to the thread pool
Accept(r) ==
    /\ r \in (DOMAIN requests) \ accepted
    /\ accepted' = accepted \cup {r}
    /\ tasks' = Append(tasks, r)
    /\ UNCHANGED <<requests, worker, published, partitions, processed>>
    /\ UNCHANGED <<qvars, evars, uvars, svcvars>>

\* the connections arrive one after the other, in the order of the ids
AcceptInOrder(r) ==
    /\ \A earlier \in 1..(r - 1) : earlier \in accepted
    /\ Accept(r)

\* a worker of the pool takes the task at the front of the queue
WorkerTake(w) ==
    /\ worker[w] = NoRequest
    /\ tasks # <<>>
    /\ worker' = [worker EXCEPT ![w] = Head(tasks)]
    /\ tasks' = Tail(tasks)
    /\ UNCHANGED <<requests, accepted, published, partitions, processed>>
    /\ UNCHANGED <<qvars, evars, uvars, svcvars>>

MessageKey_OrderId(request) == request.id

\* the key handleOrderRequest publishes a request with
MessageKey(request) == request.userId

\* the partition of a key: messages with the same key go to one partition
PartitionOf(key) == (key % NumPartitions) + 1

\* QueueClient::publish(topic, key, value): the message is appended to the
\* partition of its key
publish(parts, request) ==
    [parts EXCEPT ![PartitionOf(MessageKey(request))] = Append(@, request.id)]

\* handleOrderRequest run by worker w: a well-formed body is published with
\* the userId as key and answered 202, any other body is answered 400
HandleOrderRequest(w) ==
    /\ worker[w] # NoRequest
    /\ LET request == requests[worker[w]]
       IN IF request.well_formed
          THEN /\ partitions' = publish(partitions, request)
               /\ published' = Append(published, request.id)
          ELSE UNCHANGED <<partitions, published>>
    /\ worker' = [worker EXCEPT ![w] = NoRequest]
    /\ UNCHANGED <<requests, accepted, tasks, processed>>
    /\ UNCHANGED <<qvars, evars, uvars, svcvars>>

\* one turn of QueueClient::processMessages: the subscriber thread consumes
\* the next message of partition k and calls the handler of the topic
ProcessMessages(k) ==
    /\ partitions[k] # <<>>
    /\ LET request == requests[Head(partitions[k])]
       IN /\ processed' = Append(processed, request.id)
          /\ HandleMessage(request.userId, "LIMIT", request.side,
                           request.quantity, request.price)
    /\ partitions' = [partitions EXCEPT ![k] = Tail(@)]
    /\ UNCHANGED <<requests, accepted, tasks, worker, published>>
    /\ UNCHANGED <<qvars, uvars, svcvars>>

\* requests of several users, at most one of them not well formed
InitIngress ==
    /\ IdleQueue
    /\ InitEngine
    /\ InitUser
    /\ NoServices
    /\ \E bad \in 0..NumRequests :
          StartIngress([r \in 1..NumRequests |->
                          Request(r, UserOfRequest(r), r # bad)])

NextIngress ==
    \/ \E r \in 1..NumRequests : Accept(r)
    \/ \E w \in Workers : WorkerTake(w)
    \/ \E w \in Workers : HandleOrderRequest(w)
    \/ \E k \in 1..NumPartitions : ProcessMessages(k)

\* clients posting orders concurrently to the running engine
SpecIngress == InitIngress /\ [][NextIngress]_vars

\* five well-formed requests of user 1
InitFiveClients ==
    /\ IdleQueue
    /\ InitEngine
    /\ InitUser
    /\ NoServices
    /\ StartIngress([r \in 1..FiveClients |-> Request(r, 1, TRUE)])

NextFiveClients ==
    \/ \E r \in 1..FiveClients : AcceptInOrder(r)
    \/ \E w \in Workers : WorkerTake(w)
    \/ \E w \in Workers : HandleOrderRequest(w)
    \/ \E k \in 1..NumPartitions : ProcessMessages(k)

\* five clients of one user whose connections arrive in the order of the ids
SpecFiveClients == InitFiveClients /\ [][NextFiveClients]_vars

(***************************************************************************)
(* ThreadPool: one thread enqueues tasks and then destroys the pool        *)
(***************************************************************************)

NumPoolThreads == 2
MaxTasks == 3

PoolThreads == 1..NumPoolThreads
NoTask == 0

\* ThreadPool(threads): every worker starts at the top of its loop
StartPool ==
    /\ stop = FALSE
    /\ pool_tasks = <<>>
    /\ workers = [w \in PoolThreads |-> [pc |-> "lock", task |-> NoTask]]
    /\ enqueue_pc = "idle"
    /\ enqueued = 0
    /\ started = [t \in 1..MaxTasks |-> 0]
    /\ finished = {}
    /\ pool_pc = "alive"
    /\ joined = 0
    /\ left_at_stop = 0

\* enqueue(f) under the lock: the task is put at the back of the queue
\* (stop is false while the pool is alive, so enqueue does not throw)
PoolEnqueue ==
    /\ pool_pc = "alive"
    /\ enqueue_pc = "idle"
    /\ enqueued < MaxTasks
    /\ ~stop
    /\ pool_tasks' = Append(pool_tasks, enqueued + 1)
    /\ enqueue_pc' = "notify"
    /\ UNCHANGED <<stop, workers, enqueued, started, finished, pool_pc, joined,
                   left_at_stop>>
    /\ UNCHANGED not_pvars

\* the workers blocked in condition.wait
Blocked == {w \in PoolThreads : workers[w].pc = "blocked"}

\* condition.notify_one() at the end of enqueue: one blocked worker, if there
\* is one, is woken; enqueue returns
PoolNotifyOne ==
    /\ enqueue_pc = "notify"
    /\ \/ /\ Blocked = {}
          /\ UNCHANGED workers
       \/ \E w \in Blocked : workers' = [workers EXCEPT ![w].pc = "lock"]
    /\ enqueue_pc' = "idle"
    /\ enqueued' = enqueued + 1
    /\ UNCHANGED <<stop, pool_tasks, started, finished, pool_pc, joined,
                   left_at_stop>>
    /\ UNCHANGED not_pvars

ShouldExit_OnStop(stopping, queue) == stopping

\* a worker leaves its loop when the pool is stopping and no task is queued
ShouldExit(stopping, queue) == stopping /\ queue = <<>>

\* worker w holds the lock: it blocks in condition.wait while the pool is
\* not stopping and no task is queued, returns when ShouldExit, and takes
\* the task at the front of the queue otherwise
WorkerCheck(w) ==
    /\ workers[w].pc = "lock"
    /\ IF ~stop /\ pool_tasks = <<>>
       THEN /\ workers' = [workers EXCEPT ![w].pc = "blocked"]
            /\ UNCHANGED pool_tasks
       ELSE IF ShouldExit(stop, pool_tasks)
       THEN /\ workers' = [workers EXCEPT ![w].pc = "exited"]
            /\ UNCHANGED pool_tasks
       ELSE /\ workers' = [workers EXCEPT ![w] =
                             [pc |-> "run", task |-> Head(pool_tasks)]]
            /\ pool_tasks' = Tail(pool_tasks)
    /\ UNCHANGED <<stop, enqueue_pc, enqueued, started, finished, pool_pc,
                   joined, left_at_stop>>
    /\ UNCHANGED not_pvars

\* condition.wait may return without a notification
WorkerSpuriousWake(w) ==
    /\ workers[w].pc = "blocked"
    /\ workers' = [workers EXCEPT ![w].pc = "lock"]
    /\ UNCHANGED <<stop, pool_tasks, enqueue_pc, enqueued, started, finished,
                   pool_pc, joined, left_at_stop>>
    /\ UNCHANGED not_pvars

\* worker w calls task() outside the lock
WorkerStart(w) ==
    /\ workers[w].pc = "run"
    /\ started' = [started EXCEPT ![workers[w].task] = @ + 1]
    /\ workers' = [workers EXCEPT ![w].pc = "running"]
    /\ UNCHANGED <<stop, pool_tasks, enqueue_pc, enqueued, finished, pool_pc,
                   joined, left_at_stop>>
    /\ UNCHANGED not_pvars

\* task() returns and worker w goes back to the top of its loop
WorkerFinish(w) ==
    /\ workers[w].pc = "running"
    /\ finished' = finished \cup {workers[w].task}
    /\ workers' = [workers EXCEPT ![w] = [pc |-> "lock", task |-> NoTask]]
    /\ UNCHANGED <<stop, pool_tasks, enqueue_pc, enqueued, started, pool_pc,
                   joined, left_at_stop>>
    /\ UNCHANGED not_pvars

\* ~ThreadPool sets stop under the lock
PoolStop ==
    /\ pool_pc = "alive"
    /\ enqueue_pc = "idle"
    /\ stop' = TRUE
    /\ left_at_stop' = Len(pool_tasks)
    /\ pool_pc' = "notify_all"
    /\ UNCHANGED <<pool_tasks, workers, enqueue_pc, enqueued, started,
                   finished, joined>>
    /\ UNCHANGED not_pvars

\* ~ThreadPool: condition.notify_all()
PoolNotifyAll ==
    /\ pool_pc = "notify_all"
    /\ workers' = [w \in PoolThreads |->
                     IF workers[w].pc = "blocked"
                     THEN [workers[w] EXCEPT !.pc = "lock"] ELSE workers[w]]
    /\ pool_pc' = "join"
    /\ UNCHANGED <<stop, pool_tasks, enqueue_pc, enqueued, started, finished,
                   joined, left_at_stop>>
    /\ UNCHANGED not_pvars

\* ~ThreadPool: worker.join() for the next worker, which has returned; the
\* destructor returns after the last join
PoolJoin ==
    /\ pool_pc = "join"
    /\ joined < NumPoolThreads
    /\ workers[joined + 1].pc = "exited"
    /\ joined' = joined + 1
    /\ pool_pc' = IF joined + 1 = NumPoolThreads THEN "returned" ELSE "join"
    /\ UNCHANGED <<stop, pool_tasks, workers, enqueue_pc, enqueued, started,
                   finished, left_at_stop>>
    /\ UNCHANGED not_pvars

InitPool ==
    /\ IdleQueue
    /\ InitEngine
    /\ InitUser
    /\ NoIngress
    /\ StartPool
    /\ NoLogger
    /\ NoStats
    /\ NoReaders
    /\ NoBoard
    /\ NoHttp
    /\ NoMessages
    /\ NoRoutes
    /\ NoLifecycle
    /\ NoAdds

NextPool ==
    \/ PoolEnqueue
    \/ PoolNotifyOne
    \/ \E w \in PoolThreads : WorkerCheck(w)
    \/ \E w \in PoolThreads : WorkerSpuriousWake(w)
    \/ \E w \in PoolThreads : WorkerStart(w)
    \/ \E w \in PoolThreads : WorkerFinish(w)
    \/ PoolStop
    \/ PoolNotifyAll
    \/ PoolJoin

\* a pool that is given tasks and then destroyed by the same thread
SpecPool == InitPool /\ [][NextPool]_vars

(***************************************************************************)
(* AsyncLogger: threads that log, threads that stop, and the worker thread *)
(***************************************************************************)

NumLoggers == 2
NumStoppers == 2
MaxMessages == 2

Loggers == 1..NumLoggers
Stoppers == 1..NumStoppers

\* the string that tells the worker thread to terminate
SENTINEL == 0

\* AsyncLogger(path) and start(): the file is open and the worker runs
StartLogger ==
    /\ done_ = FALSE
    /\ log_queue_ = <<>>
    /\ written = <<>>
    /\ run_pc = "wait_and_pop"
    /\ loggers = [p \in Loggers |-> [pc |-> "idle", message |-> SENTINEL]]
    /\ completed = {}
    /\ logged = 0
    /\ stoppers = [t \in Stoppers |-> "idle"]
    /\ before_stop = [t \in Stoppers |-> {}]

\* addLog(message) reads done_: the message is dropped when the logger is
\* stopping
AddLogCheck(p) ==
    /\ loggers[p].pc = "idle"
    /\ logged < MaxMessages
    /\ logged' = logged + 1
    /\ IF done_
       THEN UNCHANGED loggers
       ELSE loggers' = [loggers EXCEPT ![p] = [pc |-> "push", message |-> logged + 1]]
    /\ UNCHANGED <<done_, log_queue_, written, run_pc, completed, stoppers,
                   before_stop>>
    /\ UNCHANGED not_lvars

\* addLog: log_queue_.push(message), and addLog returns
AddLogPush(p) ==
    /\ loggers[p].pc = "push"
    /\ log_queue_' = Append(log_queue_, loggers[p].message)
    /\ completed' = completed \cup {loggers[p].message}
    /\ loggers' = [loggers EXCEPT ![p] = [pc |-> "idle", message |-> SENTINEL]]
    /\ UNCHANGED <<done_, written, run_pc, logged, stoppers, before_stop>>
    /\ UNCHANGED not_lvars

\* stop() begins: done_.exchange(true); the call returns at once when done_
\* was already set
StopExchange(t) ==
    /\ stoppers[t] = "idle"
    /\ before_stop' = [before_stop EXCEPT ![t] = completed]
    /\ done_' = TRUE
    /\ stoppers' = [stoppers EXCEPT ![t] = IF done_ THEN "returned" ELSE "push"]
    /\ UNCHANGED <<log_queue_, written, run_pc, loggers, completed, logged>>
    /\ UNCHANGED not_lvars

\* stop(): log_queue_.push(SENTINEL)
StopPush(t) ==
    /\ stoppers[t] = "push"
    /\ log_queue_' = Append(log_queue_, SENTINEL)
    /\ stoppers' = [stoppers EXCEPT ![t] = "join"]
    /\ UNCHANGED <<done_, written, run_pc, loggers, completed, logged,
                   before_stop>>
    /\ UNCHANGED not_lvars

\* stop(): worker_thread_.join() returns once run() has returned; the file
\* is closed and stop() returns
StopJoin(t) ==
    /\ stoppers[t] = "join"
    /\ run_pc = "returned"
    /\ stoppers' = [stoppers EXCEPT ![t] = "returned"]
    /\ UNCHANGED <<done_, log_queue_, written, run_pc, loggers, completed,
                   logged, before_stop>>
    /\ UNCHANGED not_lvars

\* run(): wait_and_pop() returns the front message; the sentinel starts the
\* drain, any other message is written
RunPop ==
    /\ run_pc = "wait_and_pop"
    /\ log_queue_ # <<>>
    /\ log_queue_' = Tail(log_queue_)
    /\ IF Head(log_queue_) = SENTINEL
       THEN /\ run_pc' = "drain"
            /\ UNCHANGED written
       ELSE /\ written' = Append(written, Head(log_queue_))
            /\ UNCHANGED run_pc
    /\ UNCHANGED <<done_, loggers, completed, logged, stoppers, before_stop>>
    /\ UNCHANGED not_lvars

\* run() after the sentinel: try_pop() until the queue is empty, writing
\* what is not a sentinel
RunDrain ==
    /\ run_pc = "drain"
    /\ IF log_queue_ = <<>>
       THEN /\ run_pc' = "returned"
            /\ UNCHANGED <<log_queue_, written>>
       ELSE /\ log_queue_' = Tail(log_queue_)
            /\ written' = IF Head(log_queue_) = SENTINEL THEN written
                          ELSE Append(written, Head(log_queue_))
            /\ UNCHANGED run_pc
    /\ UNCHANGED <<done_, loggers, completed, logged, stoppers, before_stop>>
    /\ UNCHANGED not_lvars

InitLogger ==
    /\ IdleQueue
    /\ InitEngine
    /\ InitUser
    /\ NoIngress
    /\ NoPool
    /\ StartLogger
    /\ NoStats
    /\ NoReaders
    /\ NoBoard
    /\ NoHttp
    /\ NoMessages
    /\ NoRoutes
    /\ NoLifecycle
    /\ NoAdds

NextLogger ==
    \/ \E p \in Loggers : AddLogCheck(p)
    \/ \E p \in Loggers : AddLogPush(p)
    \/ \E t \in Stoppers : StopExchange(t)
    \/ \E t \in Stoppers : StopPush(t)
    \/ \E t \in Stoppers : StopJoin(t)
    \/ RunPop
    \/ RunDrain

\* a started logger used and stopped by several threads
SpecLogger == InitLogger /\ [][NextLogger]_vars

(***************************************************************************)
(* StatisticsCollector: OHLCV buckets per symbol and timeframe             *)
(***************************************************************************)

MaxEvents == 3

\* Config::timeframes
Timeframes == <<"1m", "1h", "1d">>

\* the length of a timeframe in minutes
Minutes(timeframe) ==
    IF timeframe = "1m" THEN 1 ELSE IF timeframe = "1h" THEN 60 ELSE 1440

\* the period of a timeframe a timestamp, in minutes, falls in
PeriodOf(timeframe, timestamp) == timestamp \div Minutes(timeframe)

\* timestamps in two hours of one day
Timestamps == {0, Minutes("1h")}

Max(a, b) == IF a >= b THEN a ELSE b

\* OHLCVBucket()
EmptyBucket ==
    [open |-> 0, high |-> 0, low |-> 0, close |-> 0, volume |-> 0,
     dollar_volume |-> 0, simple_return |-> Zero, trade_count |-> 0]

OHLCVBucket_KeepClose(bucket, price, vol) ==
    IF bucket.trade_count = 0
    THEN [bucket EXCEPT !.open = price, !.high = price, !.low = price,
                        !.close = price, !.volume = vol,
                        !.dollar_volume = price * vol, !.trade_count = 1]
    ELSE [bucket EXCEPT !.high = Max(@, price), !.low = Min(@, price),
                        !.volume = @ + vol,
                        !.dollar_volume = @ + price * vol,
                        !.trade_count = @ + 1]

\* OHLCVBucket::updateWithTrade(price, vol)
OHLCVBucket_updateWithTrade(bucket, price, vol) ==
    IF bucket.trade_count = 0
    THEN [bucket EXCEPT !.open = price, !.high = price, !.low = price,
                        !.close = price, !.volume = vol,
                        !.dollar_volume = price * vol, !.trade_count = 1]
    ELSE [bucket EXCEPT !.high = Max(@, price), !.low = Min(@, price),
                        !.close = price, !.volume = @ + vol,
                        !.dollar_volume = @ + price * vol,
                        !.trade_count = @ + 1]

\* InstrumentStats(): no bucket; the symbol is set on first use
NewStats == [last_trade_price |-> 0, timeframes |-> <<>>]

\* timeframes[timeframe] of std::map: the bucket, default-constructed when
\* it is not there
BucketOf(stats, timeframe) ==
    IF timeframe \in DOMAIN stats.timeframes THEN stats.timeframes[timeframe]
    ELSE EmptyBucket

\* one turn of the loop of updateStatistics over the timeframes:
\* InstrumentStats::updateWithTrade and calculateReturns; the bucket key of
\* the timestamp is computed and not used (the volatility, a square root,
\* is left out)
updateTimeframe(stats, price, quantity, timeframe, timestamp) ==
    LET previous_close == BucketOf(stats, timeframe).close
        bucket == OHLCVBucket_updateWithTrade(BucketOf(stats, timeframe),
                                              price, quantity)
        returned == IF previous_close > 0
                    THEN [bucket EXCEPT !.simple_return =
                            Ratio(bucket.close - previous_close, previous_close)]
                    ELSE bucket
    IN [last_trade_price |-> price,
        timeframes |-> [tf \in (DOMAIN stats.timeframes) \cup {timeframe} |->
                          IF tf = timeframe THEN returned
                          ELSE stats.timeframes[tf]]]

\* the first n turns of the loop
RECURSIVE updateTimeframes(_, _, _, _, _)
updateTimeframes(stats, price, quantity, timestamp, n) ==
    IF n = 0 THEN stats
    ELSE updateTimeframe(updateTimeframes(stats, price, quantity, timestamp, n - 1),
                         price, quantity, Timeframes[n], timestamp)

\* instrument_stats_[symbol] of std::unordered_map
StatsOf(all_stats, symbol) ==
    IF symbol \in DOMAIN all_stats THEN all_stats[symbol] ELSE NewStats

\* StatisticsCollector::updateStatistics(symbol, price, quantity, timestamp)
updateStatistics(all_stats, symbol, price, quantity, timestamp) ==
    [sym \in (DOMAIN all_stats) \cup {symbol} |->
        IF sym = symbol
        THEN updateTimeframes(StatsOf(all_stats, symbol), price, quantity,
                              timestamp, Len(Timeframes))
        ELSE all_stats[sym]]

\* TradeEvent
TradeEvent(symbol, price, quantity, timestamp) ==
    [symbol |-> symbol, price |-> price, quantity |-> quantity,
     timestamp |-> timestamp]

\* processTradeEvent(event) called by the collector thread
ProcessTradeEvent(symbol, price, quantity, timestamp) ==
    /\ Len(stats_log) < MaxEvents
    /\ instrument_stats_' =
          updateStatistics(instrument_stats_, symbol, price, quantity, timestamp)
    /\ stats_log' = Append(stats_log, TradeEvent(symbol, price, quantity, timestamp))
    /\ UNCHANGED cvars
    /\ UNCHANGED qvars
    /\ UNCHANGED not_svars

InitOhlcv ==
    /\ IdleQueue
    /\ InitEngine
    /\ InitUser
    /\ NoIngress
    /\ NoPool
    /\ NoLogger
    /\ NoStats
    /\ NoReaders
    /\ NoBoard
    /\ NoHttp
    /\ NoMessages
    /\ NoRoutes
    /\ NoLifecycle
    /\ NoAdds

\* trades with timestamps that do not go back
NextOhlcv ==
    \E symbol \in Symbols, price \in Prices, quantity \in Quantities,
       timestamp \in Timestamps :
        /\ \A i \in 1..Len(stats_log) : stats_log[i].timestamp <= timestamp
        /\ ProcessTradeEvent(symbol, price, quantity, timestamp)

\* the collector thread processing trade events one after the other
SpecOhlcv == InitOhlcv /\ [][NextOhlcv]_vars

(***************************************************************************)
(* StatisticsCollector: readers of the statistics and stats_mutex_         *)
(***************************************************************************)

NumReaders == 2
MaxUpdates == 2

Readers == 1..NumReaders

\* getStatsForSymbol found no entry
nullopt == [symbol |-> ""]

\* std::unique_lock<std::shared_mutex> can be taken
UniqueLockable(mutex) == ~mutex.unique /\ mutex.shared = {}

SharedLockable_Always(mutex) == TRUE

\* std::shared_lock<std::shared_mutex> can be taken
SharedLockable(mutex) == ~mutex.unique

\* a collector that is running and readers that have not called yet
StartReaders ==
    /\ stats_mutex_ = [unique |-> FALSE, shared |-> {}]
    /\ update_turn = 0
    /\ reader_pc = [r \in Readers |-> "idle"]
    /\ snapshots = <<>>

\* updateStatistics, lines 156-167: the exclusive lock, then
\* instrument_stats_[symbol] makes the entry of a new symbol
UpdateLock(symbol, price, quantity, timestamp) ==
    /\ update_turn = 0
    /\ Len(stats_log) < MaxUpdates
    /\ UniqueLockable(stats_mutex_)
    /\ stats_mutex_' = [stats_mutex_ EXCEPT !.unique = TRUE]
    /\ instrument_stats_' =
          [sym \in (DOMAIN instrument_stats_) \cup {symbol} |->
              StatsOf(instrument_stats_, sym)]
    /\ stats_log' = Append(stats_log, TradeEvent(symbol, price, quantity, timestamp))
    /\ update_turn' = 1
    /\ UNCHANGED <<reader_pc, snapshots>>
    /\ UNCHANGED cvars
    /\ UNCHANGED qvars
    /\ UNCHANGED <<evars, uvars, ivars, pvars, lvars, bvars, hvars, mvars, tvars, gvars, avars>>

\* updateStatistics, lines 170-192: one turn of the loop over the timeframes
UpdateTurn ==
    /\ update_turn \in 1..Len(Timeframes)
    /\ \E event \in {stats_log[Len(stats_log)]} :
          instrument_stats_' =
             [instrument_stats_ EXCEPT ![event.symbol] =
                 updateTimeframe(@, event.price, event.quantity,
                                 Timeframes[update_turn], event.timestamp)]
    /\ update_turn' = update_turn + 1
    /\ UNCHANGED <<stats_mutex_, reader_pc, snapshots>>
    /\ UNCHANGED <<stats_log, cvars>>
    /\ UNCHANGED qvars
    /\ UNCHANGED <<evars, uvars, ivars, pvars, lvars, bvars, hvars, mvars, tvars, gvars, avars>>

\* updateStatistics, line 193: the lock is released
UpdateUnlock ==
    /\ update_turn = Len(Timeframes) + 1
    /\ stats_mutex_' = [stats_mutex_ EXCEPT !.unique = FALSE]
    /\ update_turn' = 0
    /\ UNCHANGED <<reader_pc, snapshots>>
    /\ UNCHANGED <<instrument_stats_, stats_log, cvars>>
    /\ UNCHANGED qvars
    /\ UNCHANGED <<evars, uvars, ivars, pvars, lvars, bvars, hvars, mvars, tvars, gvars, avars>>

\* getStatsForSymbol, line 91, and getAllStats, line 102: the shared lock;
\* every reading thread makes one call
ReaderLock(r, call) ==
    /\ reader_pc[r] = "idle"
    /\ SharedLockable(stats_mutex_)
    /\ stats_mutex_' = [stats_mutex_ EXCEPT !.shared = @ \cup {r}]
    /\ reader_pc' = [reader_pc EXCEPT ![r] = call]
    /\ UNCHANGED <<update_turn, snapshots>>
    /\ UNCHANGED svars
    /\ UNCHANGED qvars
    /\ UNCHANGED <<evars, uvars, ivars, pvars, lvars, bvars, hvars, mvars, tvars, gvars, avars>>

\* getStatsForSymbol(symbol), lines 93-98: a copy of the entry, or nullopt
getStatsForSymbol(all_stats, symbol) ==
    IF symbol \in DOMAIN all_stats THEN all_stats[symbol] ELSE nullopt

\* getAllStats(), line 103: a copy of the map
getAllStats(all_stats) == all_stats

\* the value the call of a reader returns
Returned(call, all_stats) ==
    IF call = "getAllStats" THEN getAllStats(all_stats)
    ELSE getStatsForSymbol(all_stats, call)

\* getStatsForSymbol, lines 93-99, and getAllStats, lines 103-104: the copy
\* is made, the lock is released and the call returns
ReaderReturn(r) ==
    /\ reader_pc[r] \notin {"idle", "done"}
    /\ snapshots' = Append(snapshots,
                           [call |-> reader_pc[r],
                            value |-> Returned(reader_pc[r], instrument_stats_)])
    /\ stats_mutex_' = [stats_mutex_ EXCEPT !.shared = @ \ {r}]
    /\ reader_pc' = [reader_pc EXCEPT ![r] = "done"]
    /\ UNCHANGED update_turn
    /\ UNCHANGED svars
    /\ UNCHANGED qvars
    /\ UNCHANGED <<evars, uvars, ivars, pvars, lvars, bvars, hvars, mvars, tvars, gvars, avars>>

InitSnapshot ==
    /\ IdleQueue
    /\ InitEngine
    /\ InitUser
    /\ NoIngress
    /\ NoPool
    /\ NoLogger
    /\ NoStats
    /\ StartReaders
    /\ NoBoard
    /\ NoHttp
    /\ NoMessages
    /\ NoRoutes
    /\ NoLifecycle
    /\ NoAdds

NextSnapshot ==
    \/ \E symbol \in Symbols, price \in {1, MaxPrice} :
          UpdateLock(symbol, price, min_quantity_, 0)
    \/ UpdateTurn
    \/ UpdateUnlock
    \/ \E r \in Readers, call \in Symbols \cup {"getAllStats"} : ReaderLock(r, call)
    \/ \E r \in Readers : ReaderReturn(r)

\* the collector thread processing trade events while other threads read
SpecSnapshot == InitSnapshot /\ [][NextSnapshot]_vars

(***************************************************************************)
(* The leaderboard request and the subscriber thread on one user           *)
(***************************************************************************)

MaxBoards == 2

\* all variables but those of the User and of the leaderboard
not_bvars == <<qvars, evars, ivars, pvars, lvars, svars, rvars, hvars, mvars, tvars, gvars, avars>>

\* the cash a user is created with, enough for every BUY of a run
BoardStartingCash == MaxCalls * min_quantity_ * MaxPrice

\* a MatchingEngine without users, no leaderboard request yet
StartBoard ==
    /\ users_pc = "absent"
    /\ apply_pc = "idle"
    /\ apply_result = <<>>
    /\ user_states = {}
    /\ board_pc = "idle"
    /\ board_cash = 0
    /\ board = <<>>
    /\ board_raced = FALSE

\* getOrCreateUser, lines 197-204: the user is not found, a User is made
\* and addUser begins to insert it into users_
AddUserBegin ==
    /\ users_pc = "absent"
    /\ users_pc' = "inserting"
    /\ user' = NewUser(BoardStartingCash)
    /\ UNCHANGED <<user_call, bought, sold, user_calls>>
    /\ UNCHANGED <<apply_pc, apply_result, user_states, board_pc, board_cash,
                   board, board_raced>>
    /\ UNCHANGED not_bvars

\* addUser, line 186: users_[user_id] = user is complete
AddUserEnd ==
    /\ users_pc = "inserting"
    /\ users_pc' = "present"
    /\ user_states' = {user}
    /\ UNCHANGED uvars
    /\ UNCHANGED <<apply_pc, apply_result, board_pc, board_cash, board,
                   board_raced>>
    /\ UNCHANGED not_bvars

\* applyExecution, lines 38-71 and 77-99: the checks, then the writes to
\* realized_pnl_ and to the position; the write to cash_balance_ is to come
ApplyPosition(side, symbol, q, p, fee) ==
    /\ users_pc = "present"
    /\ apply_pc = "idle"
    /\ user_calls < MaxCalls
    /\ user_calls' = user_calls + 1
    /\ \E r \in {applyExecution(user, side, symbol, q, p, fee)} :
          IF r.ok
          THEN /\ user' = [r.user EXCEPT !.cash_balance_ = user.cash_balance_]
               /\ apply_result' = r.user
               /\ apply_pc' = "cash"
          ELSE /\ user' = r.user
               /\ apply_result' = <<>>
               /\ apply_pc' = "idle"
    /\ UNCHANGED <<user_call, bought, sold>>
    /\ UNCHANGED <<users_pc, user_states, board_pc, board_cash, board,
                   board_raced>>
    /\ UNCHANGED not_bvars

\* applyExecution, lines 74 and 102: the write to cash_balance_, return true
ApplyCash ==
    /\ apply_pc = "cash"
    /\ user' = apply_result
    /\ user_states' = user_states \cup {apply_result}
    /\ apply_result' = <<>>
    /\ apply_pc' = "idle"
    /\ UNCHANGED <<user_call, bought, sold, user_calls>>
    /\ UNCHANGED <<users_pc, board_pc, board_cash, board, board_raced>>
    /\ UNCHANGED not_bvars

\* what a leaderboard request reports of a user
BoardEntry(cash, positions) ==
    [found |-> TRUE, cash_balance |-> cash, positions |-> positions]

\* handleLeaderboardRequest of a request that finds no user
NoEntry == [found |-> FALSE, cash_balance |-> 0, positions |-> <<>>]

\* handleLeaderboardRequest, lines 541-557: getAllUsers() and empty(); a
\* read of users_ during an insertion may find the map in either state
BoardUsers ==
    /\ board_pc = "idle"
    /\ Len(board) < MaxBoards
    /\ board_raced' = (board_raced \/ users_pc = "inserting")
    /\ \E found \in {users_pc = "present"} \cup
                    (IF users_pc = "inserting" THEN BOOLEAN ELSE {}) :
          IF found
          THEN board_pc' = "cash" /\ board' = board
          ELSE board_pc' = "idle" /\ board' = Append(board, NoEntry)
    /\ UNCHANGED uvars
    /\ UNCHANGED <<users_pc, apply_pc, apply_result, user_states, board_cash>>
    /\ UNCHANGED not_bvars

\* handleLeaderboardRequest, line 565: net_worth = user_ptr->getCashBalance()
BoardCash ==
    /\ board_pc = "cash"
    /\ board_cash' = user.cash_balance_
    /\ board_pc' = "positions"
    /\ UNCHANGED uvars
    /\ UNCHANGED <<users_pc, apply_pc, apply_result, user_states, board,
                   board_raced>>
    /\ UNCHANGED not_bvars

\* handleLeaderboardRequest, lines 568-600: getAllPositions() and the loop
\* over the positions
BoardPositions ==
    /\ board_pc = "positions"
    /\ board' = Append(board, BoardEntry(board_cash, user.symbol_to_position_))
    /\ board_cash' = 0
    /\ board_pc' = "idle"
    /\ UNCHANGED uvars
    /\ UNCHANGED <<users_pc, apply_pc, apply_result, user_states, board_raced>>
    /\ UNCHANGED not_bvars

InitBoard ==
    /\ IdleQueue
    /\ InitEngine
    /\ InitUser
    /\ NoIngress
    /\ NoPool
    /\ NoLogger
    /\ NoStats
    /\ NoReaders
    /\ StartBoard
    /\ NoHttp
    /\ NoMessages
    /\ NoRoutes
    /\ NoLifecycle
    /\ NoAdds

NextBoard ==
    \/ AddUserBegin
    \/ AddUserEnd
    \/ \E side \in Sides, p \in Prices :
          ApplyPosition(side, BookSymbol, min_quantity_, p, 0)
    \/ ApplyCash
    \/ BoardUsers
    \/ BoardCash
    \/ BoardPositions

\* leaderboard requests served while the subscriber thread applies trades
SpecBoard == InitBoard /\ [][NextBoard]_vars

(***************************************************************************)
(* POST /order: handleOrderRequest and the bus                             *)
(***************************************************************************)

MaxPosts == 3

\* a member of a JSON object: absent, a string or a number
Absent == [type |-> "absent", value |-> ""]
String(v) == [type |-> "string", value |-> v]
Number == [type |-> "number", value |-> ""]

\* the values the members userId and id of a body take
UserIdValues == {Absent, Number, String("user1"), String("user2")}
IdValues == {Absent, Number, String("order1")}

\* the request bodies: text that is not JSON, and JSON objects
Bodies ==
    {[json |-> FALSE, userId |-> Absent, id |-> Absent]} \cup
    [json : {TRUE}, userId : UserIdValues, id : IdValues]

\* the message handleOrderRequest hands to QueueClient::publish
OrderMessage(body) ==
    [topic |-> "order-requests", key |-> body.userId.value, value |-> body]

Contains_UserId(body) == body.userId # Absent

\* handleOrderRequest, line 228: contains("userId") and contains("id")
Contains(body) == body.userId # Absent /\ body.id # Absent

\* the answer of handleOrderRequest
Response(status_code, order_id, publish_result, sent) ==
    [status_code |-> status_code, order_id |-> order_id,
     publish_result |-> publish_result, sent |-> sent]

\* handleOrderRequest(request); bus_ok is what QueueClient::publish returns.
\* json::parse, at("userId") converted to a string and at("id").get of a
\* string throw json::exception, caught at line 254
handleOrderRequest(body, bus_ok) ==
    IF ~body.json THEN Response(400, "", "none", <<>>)
    ELSE IF ~Contains(body) THEN Response(400, "", "none", <<>>)
    ELSE IF body.userId.type # "string" THEN Response(400, "", "none", <<>>)
    ELSE IF ~bus_ok THEN Response(500, "", "failed", <<>>)
    ELSE IF body.id.type # "string"
         THEN Response(400, "", "published", <<OrderMessage(body)>>)
    ELSE Response(202, body.id.value, "published", <<OrderMessage(body)>>)

\* a client posts an order; the bus accepts what is published when it is up
PostOrder(body, bus_ok) ==
    /\ Len(http_log) < MaxPosts
    /\ \E response \in {handleOrderRequest(body, bus_ok)} :
          /\ http_log' = Append(http_log, [body |-> body, response |-> response])
          /\ bus_log' = bus_log \o
                [j \in 1..Len(response.sent) |->
                    [request |-> Len(http_log) + 1, message |-> response.sent[j]]]
    /\ UNCHANGED <<qvars, evars, uvars, ivars>>
    /\ UNCHANGED <<pvars, lvars, svars, rvars, bvars, mvars, tvars, gvars, avars>>

InitHttp ==
    /\ IdleQueue
    /\ InitEngine
    /\ InitUser
    /\ NoIngress
    /\ NoPool
    /\ NoLogger
    /\ NoStats
    /\ NoReaders
    /\ NoBoard
    /\ NoHttp
    /\ NoMessages
    /\ NoRoutes
    /\ NoLifecycle
    /\ NoAdds

NextHttp == \E body \in Bodies, bus_ok \in BOOLEAN : PostOrder(body, bus_ok)

\* POST /order requests of any body, the bus up or down
SpecHttp == InitHttp /\ [][NextHttp]_vars

(***************************************************************************)
(* The subscriber thread: bus messages of any content                      *)
(***************************************************************************)

MaxDeliveries == 3

\* the members processOrderFromQueue reads of every message
Members == {"id", "userId", "symbol", "type", "side", "quantity"}

\* a message whose value is the JSON object of a LIMIT order
OrderJson(u, s) ==
    [json |-> TRUE, members |-> Members \cup {"price"}, userId |-> u,
     symbol |-> BookSymbol, type |-> "LIMIT", side |-> s,
     quantity |-> min_quantity_, price |-> min_price_]

\* a message and the ways in which it can be wrong
Variants(m) ==
    {m,
     [m EXCEPT !.json = FALSE],
     [m EXCEPT !.members = @ \ {"quantity"}],
     [m EXCEPT !.members = @ \ {"price"}],
     [m EXCEPT !.type = "FOO"],
     [m EXCEPT !.side = "HOLD"],
     [m EXCEPT !.symbol = ""],
     [m EXCEPT !.quantity = 0],
     [m EXCEPT !.price = 0]}

\* the messages of the bus
Messages ==
    {OrderJson(u, s) : u \in {1, NumUsers}, s \in Sides}
        \cup Variants(OrderJson(1, "BUY"))

\* processOrderFromQueue, lines 271-289: the exception thrown by json::parse,
\* at(member), stringToOrderType and stringToOrderSide, if any
Thrown(msg) ==
    IF ~msg.json THEN "json::exception"
    ELSE IF ~(Members \subseteq msg.members) THEN "json::exception"
    ELSE IF msg.type \notin Types THEN "std::invalid_argument"
    ELSE IF msg.side \notin Sides THEN "std::invalid_argument"
    ELSE IF msg.type \in {"LIMIT", "STOP"} /\ "price" \notin msg.members
         THEN "json::exception"
    ELSE "none"

Caught_JsonOnly(exception) == exception = "json::exception"

\* processOrderFromQueue, lines 328-334: the catch clauses
Caught(exception) == exception \in {"json::exception", "std::invalid_argument"}

\* OrderValidator::isValidSymbol with no symbol list
isValidSymbol(symbol) == symbol # ""

\* the running subscriber of a TradingEngine that has no order book yet
StartSubscriber ==
    /\ order_books_ = {}
    /\ msg_log = <<>>
    /\ subscriber_pc = "running"

\* QueueClient::processMessages calls the handler with one message; an
\* exception the handler does not catch ends the subscriber thread
DeliverMessage(msg) ==
    /\ subscriber_pc = "running"
    /\ Len(msg_log) < MaxDeliveries
    /\ msg_log' = Append(msg_log, msg)
    /\ IF Thrown(msg) # "none"
       THEN /\ subscriber_pc' = IF Caught(Thrown(msg)) THEN "running"
                                                       ELSE "terminated"
            /\ handled' = handled + 1
            /\ UNCHANGED <<orders, submitted, buy_orders_, sell_orders_, trades,
                           total_trades_, total_volume_, next_trade_id_,
                           last_match, users_, order_books_>>
       ELSE IF ~isValidSymbol(msg.symbol)
       THEN /\ handled' = handled + 1
            /\ UNCHANGED <<orders, submitted, buy_orders_, sell_orders_, trades,
                           total_trades_, total_volume_, next_trade_id_,
                           last_match, users_, order_books_, subscriber_pc>>
       ELSE /\ HandleMessage(msg.userId, msg.type, msg.side, msg.quantity,
                             msg.price)
            /\ order_books_' =
                  IF validate(NewOrder(0, msg.userId, msg.type, msg.side,
                                       msg.quantity, msg.price))
                  THEN order_books_ \cup {msg.symbol}
                  ELSE order_books_
            /\ UNCHANGED subscriber_pc
    /\ UNCHANGED <<qvars, uvars, ivars>>
    /\ UNCHANGED <<pvars, lvars, svars, rvars, bvars, hvars, tvars, gvars, avars>>

InitMessages ==
    /\ IdleQueue
    /\ InitEngine
    /\ InitUser
    /\ NoIngress
    /\ NoPool
    /\ NoLogger
    /\ NoStats
    /\ NoReaders
    /\ NoBoard
    /\ NoHttp
    /\ StartSubscriber
    /\ NoRoutes
    /\ NoLifecycle
    /\ NoAdds

NextMessages == \E msg \in Messages : DeliverMessage(msg)

\* the subscriber thread handling bus messages, well formed or not
SpecMessages == InitMessages /\ [][NextMessages]_vars

(***************************************************************************)
(* HttpServer: the routes of the engine and routeRequest                   *)
(***************************************************************************)

MaxRouted == 2

\* a segment of a path pattern: literal text, or a {parameter}
Lit(text) == [param |-> FALSE, text |-> text]
Param(name) == [param |-> TRUE, text |-> name]

\* registerRoute(method, path_pattern, handler)
Route(method, path_pattern, handler) ==
    [method |-> method, path_pattern |-> path_pattern, handler |-> handler]

\* setupCallbacks, lines 180-213: routes_ in the order of registration
EngineRoutes ==
    <<Route("POST", <<Lit("order")>>, "handleOrderRequest"),
      Route("GET", <<Lit("health")>>, "handleHealthRequest"),
      Route("GET", <<Lit("api"), Lit("v1"), Lit("orderbook"), Param("symbol")>>,
            "handleOrderBookRequest"),
      Route("GET", <<Lit("api"), Lit("v1"), Lit("stats"), Param("symbol")>>,
            "handleStatsRequest"),
      Route("GET", <<Lit("api"), Lit("v1"), Lit("stats"), Param("symbol"),
                     Param("timeframe")>>,
            "handleStatsRequest"),
      Route("GET", <<Lit("api"), Lit("v1"), Lit("stats"), Lit("all")>>,
            "handleAllStatsRequest"),
      Route("GET", <<Lit("api"), Lit("v1"), Lit("stats"), Lit("summary")>>,
            "handleStatsSummaryRequest"),
      Route("GET", <<Lit("api"), Lit("v1"), Lit("leaderboard")>>,
            "handleLeaderboardRequest")>>

\* the request paths, as their segments between the slashes
RequestPaths ==
    {<<"order">>, <<"health">>, <<"nothing">>,
     <<"api", "v1", "orderbook", "AAPL">>,
     <<"api", "v1", "stats", "AAPL">>,
     <<"api", "v1", "stats", "AAPL", "1m">>,
     <<"api", "v1", "stats", "all">>,
     <<"api", "v1", "stats", "summary">>,
     <<"api", "v1", "leaderboard">>}

Methods == {"GET", "POST"}

\* pathPatternToRegex and std::regex_match: every {parameter} is ([^/]+),
\* the rest is matched as written, from ^ to $
regex_match(path, path_pattern) ==
    /\ Len(path) = Len(path_pattern)
    /\ \A i \in 1..Len(path) :
          IF path_pattern[i].param THEN path[i] # ""
          ELSE path[i] = path_pattern[i].text

\* routeRequest, lines 434-439: match[i + 1] for every parameter name
PathParams(path, path_pattern) ==
    {<<path_pattern[i].text, path[i]>> :
        i \in {k \in 1..Len(path_pattern) : path_pattern[k].param}}

\* the handler a request is given to, with the path parameters it gets
Dispatch(handler, path_params) == [handler |-> handler, path_params |-> path_params]

\* the routes that are POST /order or GET /health, by their position
Simple(routes, i) ==
    \/ routes[i].method = "POST" /\ routes[i].path_pattern = <<Lit("order")>>
    \/ routes[i].method = "GET" /\ routes[i].path_pattern = <<Lit("health")>>

\* the first route of a loop over routes_ that satisfies the test
FirstOf(positions) == CHOOSE i \in positions : \A k \in positions : i <= k

\* HttpServer::routeRequest with no legacy handler set
routeRequest(routes, method, path) ==
    LET fast == {i \in 1..Len(routes) :
                    /\ Simple(routes, i)
                    /\ routes[i].method = method
                    /\ <<Lit(path[1])>> = routes[i].path_pattern
                    /\ Len(path) = 1}
        matching == {i \in 1..Len(routes) :
                        /\ routes[i].method = method \/ routes[i].method = "*"
                        /\ ~Simple(routes, i)
                        /\ regex_match(path, routes[i].path_pattern)}
    IN IF fast # {}
       THEN Dispatch(routes[FirstOf(fast)].handler, {})
       ELSE IF matching # {}
       THEN Dispatch(routes[FirstOf(matching)].handler,
                     PathParams(path, routes[FirstOf(matching)].path_pattern))
       ELSE Dispatch("createErrorResponse(404)", {})

\* handleClientRequest: one request is routed
RouteRequest(method, path) ==
    /\ Len(route_log) < MaxRouted
    /\ route_log' = Append(route_log,
                           [method |-> method, path |-> path,
                            dispatch |-> routeRequest(EngineRoutes, method, path)])
    /\ UNCHANGED <<qvars, evars, uvars, ivars>>
    /\ UNCHANGED <<pvars, lvars, svars, rvars, bvars, hvars, mvars, gvars, avars>>

InitRoutes ==
    /\ IdleQueue
    /\ InitEngine
    /\ InitUser
    /\ NoIngress
    /\ NoPool
    /\ NoLogger
    /\ NoStats
    /\ NoReaders
    /\ NoBoard
    /\ NoHttp
    /\ NoMessages
    /\ NoRoutes
    /\ NoLifecycle
    /\ NoAdds

NextRoutes == \E method \in Methods, path \in RequestPaths : RouteRequest(method, path)

\* requests routed by the server of the engine
SpecRoutes == InitRoutes /\ [][NextRoutes]_vars

(***************************************************************************)
(* The engine process: main, TradingEngine::start and stop, signalHandler, *)
(* the server thread and its pool, the message thread and handleTrade      *)
(***************************************************************************)

NumSignals == 2
MaxTradesEmitted == 1
MaxClients == 1

Handlers == 1..NumSignals

not_gvars ==
    <<qvars, evars, uvars, ivars, pvars, lvars, svars, rvars, bvars, hvars, mvars, tvars,
      avars>>

mainvars == <<main_pc, start_log>>
sigvars == <<handler_pc, handler_thread, stop_log, stops_completed, aborted>>
httpvars ==
    <<http_running_, stop_flag_, server_pc, client_requests, pool_queued, client_pc,
      publishes>>
busvars == <<connected_, bus_running_, subscribed, message_pc, deliveries>>

\* a call that begins and returns within one step
BeginEnd(step) == <<<<"begin", step>>, <<"end", step>>>>

\* main has not returned and std::terminate was not called
Alive == ~aborted /\ main_pc \notin {"none", "failed", "exited"}

\* an invocation of signalHandler that has not returned
Active(h) == handler_pc[h] \notin {"idle", "done"}

\* a thread does nothing while a signal handler runs on it
Suspended(thread) == \E h \in Handlers : handler_thread[h] = thread /\ Active(h)

\* a handler runs unless a later signal interrupted it on its thread
Runs(h) ==
    /\ Alive
    /\ Active(h)
    /\ ~\E k \in Handlers : k > h /\ Active(k) /\ handler_thread[k] = handler_thread[h]

MainRuns == Alive /\ ~Suspended("main")

MessageRuns == Alive /\ ~Suspended("message")

\* main after signal(SIGINT, ...), signal(SIGTERM, ...) and initialize
StartProcess ==
    /\ engine_running_ = FALSE
    /\ main_pc = "loggers"
    /\ start_log = <<>>
    /\ handler_pc = [h \in Handlers |-> "idle"]
    /\ handler_thread = [h \in Handlers |-> "none"]
    /\ stop_log = [h \in Handlers |-> <<>>]
    /\ stops_completed = 0
    /\ aborted = FALSE
    /\ loggers_started = FALSE
    /\ http_running_ = FALSE
    /\ stop_flag_ = FALSE
    /\ server_pc = "none"
    /\ collector_running = FALSE
    /\ connected_ = FALSE
    /\ bus_running_ = FALSE
    /\ subscribed = FALSE
    /\ message_pc = "none"
    /\ deliveries = <<>>
    /\ client_requests = 0
    /\ pool_queued = 0
    /\ client_pc = "idle"
    /\ publishes = <<>>

\* TradingEngine::start: the statement after each one
AfterStart(step) ==
    CASE step = "loggers" -> "http"
      [] step = "http" -> "stats"
      [] step = "stats" -> "connect"
      [] step = "connect" -> "subscribe"
      [] step = "subscribe" -> "running"

AfterStop_BusBeforeStats(step) ==
    CASE step = "set" -> "http"
      [] step = "http" -> "bus"
      [] step = "bus" -> "stats"
      [] step = "stats" -> "loggers"
      [] step = "loggers" -> "done"

\* TradingEngine::stop: the statement after each one
AfterStop(step) ==
    CASE step = "set" -> "http"
      [] step = "http" -> "stats"
      [] step = "stats" -> "bus"
      [] step = "bus" -> "loggers"
      [] step = "loggers" -> "done"

\* start, lines 104-111: app_logger_->start(), trade_logger_->start()
EngineStartLoggers ==
    /\ MainRuns
    /\ main_pc = "loggers"
    /\ loggers_started' = TRUE
    /\ start_log' = start_log \o BeginEnd("loggers")
    /\ main_pc' = AfterStart("loggers")
    /\ UNCHANGED <<engine_running_, sigvars, httpvars, collector_running, busvars>>
    /\ UNCHANGED not_gvars

\* start, lines 114-117: http_server_->start(), which starts the server thread
EngineStartHttp(ok) ==
    /\ MainRuns
    /\ main_pc = "http"
    /\ IF ok
       THEN /\ stop_flag_' = FALSE
            /\ http_running_' = TRUE
            /\ server_pc' = "accept"
            /\ start_log' = start_log \o BeginEnd("http")
            /\ main_pc' = AfterStart("http")
       ELSE /\ start_log' = Append(start_log, <<"begin", "http">>)
            /\ main_pc' = "failed"
            /\ UNCHANGED <<stop_flag_, http_running_, server_pc>>
    /\ UNCHANGED <<engine_running_, sigvars, loggers_started, collector_running, busvars>>
    /\ UNCHANGED <<client_requests, pool_queued, client_pc, publishes>>
    /\ UNCHANGED not_gvars

\* start, lines 120-124: stats_collector_->start()
EngineStartStatistics ==
    /\ MainRuns
    /\ main_pc = "stats"
    /\ collector_running' = TRUE
    /\ start_log' = start_log \o BeginEnd("stats")
    /\ main_pc' = AfterStart("stats")
    /\ UNCHANGED <<engine_running_, sigvars, loggers_started, httpvars, busvars>>
    /\ UNCHANGED not_gvars

\* start, lines 127-131: queue_client_->connect(), which starts the message thread
EngineConnect(ok) ==
    /\ MainRuns
    /\ main_pc = "connect"
    /\ IF ok
       THEN /\ connected_' = TRUE
            /\ bus_running_' = TRUE
            /\ message_pc' = "poll"
            /\ start_log' = start_log \o BeginEnd("connect")
            /\ main_pc' = AfterStart("connect")
       ELSE /\ start_log' = Append(start_log, <<"begin", "connect">>)
            /\ main_pc' = "failed"
            /\ UNCHANGED <<connected_, bus_running_, message_pc>>
    /\ UNCHANGED <<engine_running_, sigvars, loggers_started, httpvars, collector_running>>
    /\ UNCHANGED <<subscribed, deliveries>>
    /\ UNCHANGED not_gvars

\* start, lines 134-140: queue_client_->subscribe("order-requests", ...)
EngineSubscribe ==
    /\ MainRuns
    /\ main_pc = "subscribe"
    /\ subscribed' = connected_
    /\ start_log' = start_log \o
                    (IF connected_ THEN BeginEnd("subscribe")
                     ELSE <<<<"begin", "subscribe">>>>)
    /\ main_pc' = IF connected_ THEN AfterStart("subscribe") ELSE "failed"
    /\ UNCHANGED <<engine_running_, sigvars, loggers_started, httpvars, collector_running>>
    /\ UNCHANGED <<connected_, bus_running_, message_pc, deliveries>>
    /\ UNCHANGED not_gvars

\* start, lines 142-144: running_ = true; main then enters its loop
EngineSetRunning ==
    /\ MainRuns
    /\ main_pc = "running"
    /\ engine_running_' = TRUE
    /\ main_pc' = "loop"
    /\ UNCHANGED <<start_log, sigvars, loggers_started, httpvars, collector_running, busvars>>
    /\ UNCHANGED not_gvars

\* main, lines 784-794: the loop ends when isRunning() is false
MainLoopExit ==
    /\ MainRuns
    /\ main_pc = "loop"
    /\ ~engine_running_
    /\ main_pc' = "exited"
    /\ UNCHANGED <<engine_running_, start_log, sigvars, loggers_started, httpvars>>
    /\ UNCHANGED <<collector_running, busvars>>
    /\ UNCHANGED not_gvars

\* SIGINT or SIGTERM is delivered on a thread: signalHandler is entered
Signal(h, thread) ==
    /\ Alive
    /\ handler_pc[h] = "idle"
    /\ IF h = 1 THEN TRUE ELSE handler_pc[h - 1] # "idle"
    /\ thread = "message" => message_pc \notin {"none", "exited"}
    /\ handler_pc' = [handler_pc EXCEPT ![h] = "check"]
    /\ handler_thread' = [handler_thread EXCEPT ![h] = thread]
    /\ UNCHANGED <<engine_running_, mainvars, stop_log, stops_completed, aborted>>
    /\ UNCHANGED <<loggers_started, httpvars, collector_running, busvars>>
    /\ UNCHANGED not_gvars

\* stop, lines 148-150: if (!running_) return
EngineStopCheck(h) ==
    /\ Runs(h)
    /\ handler_pc[h] = "check"
    /\ handler_pc' = [handler_pc EXCEPT ![h] = IF engine_running_ THEN "set" ELSE "done"]
    /\ UNCHANGED <<engine_running_, mainvars, handler_thread, stop_log, stops_completed>>
    /\ UNCHANGED <<aborted, loggers_started, httpvars, collector_running, busvars>>
    /\ UNCHANGED not_gvars

\* stop, line 152: running_ = false
EngineStopSet(h) ==
    /\ Runs(h)
    /\ handler_pc[h] = "set"
    /\ engine_running_' = FALSE
    /\ handler_pc' = [handler_pc EXCEPT ![h] = AfterStop("set")]
    /\ UNCHANGED <<mainvars, handler_thread, stop_log, stops_completed, aborted>>
    /\ UNCHANGED <<loggers_started, httpvars, collector_running, busvars>>
    /\ UNCHANGED not_gvars

\* stop, lines 154-156, HttpServer::stop up to the join of the server thread
EngineStopHttp(h) ==
    /\ Runs(h)
    /\ handler_pc[h] = "http"
    /\ IF http_running_
       THEN /\ stop_flag_' = TRUE
            /\ stop_log' = [stop_log EXCEPT ![h] = Append(@, <<"begin", "http">>)]
            /\ handler_pc' = [handler_pc EXCEPT ![h] = "http_join"]
       ELSE /\ stop_log' = [stop_log EXCEPT ![h] = @ \o BeginEnd("http")]
            /\ handler_pc' = [handler_pc EXCEPT ![h] = AfterStop("http")]
            /\ UNCHANGED stop_flag_
    /\ UNCHANGED <<engine_running_, mainvars, handler_thread, stops_completed, aborted>>
    /\ UNCHANGED <<loggers_started, collector_running, busvars>>
    /\ UNCHANGED <<http_running_, server_pc, client_requests, pool_queued, client_pc, publishes>>
    /\ UNCHANGED not_gvars

\* HttpServer::stop, lines 350-353: server_thread_.join(); running_ = false
EngineStopHttpJoin(h) ==
    /\ Runs(h)
    /\ handler_pc[h] = "http_join"
    /\ server_pc = "exited"
    /\ http_running_' = FALSE
    /\ stop_log' = [stop_log EXCEPT ![h] = Append(@, <<"end", "http">>)]
    /\ handler_pc' = [handler_pc EXCEPT ![h] = AfterStop("http")]
    /\ UNCHANGED <<engine_running_, mainvars, handler_thread, stops_completed, aborted>>
    /\ UNCHANGED <<loggers_started, collector_running, busvars>>
    /\ UNCHANGED <<stop_flag_, server_pc, client_requests, pool_queued, client_pc, publishes>>
    /\ UNCHANGED not_gvars

\* stop, lines 158-160: stats_collector_->stop()
EngineStopStatistics(h) ==
    /\ Runs(h)
    /\ handler_pc[h] = "stats"
    /\ collector_running' = FALSE
    /\ stop_log' = [stop_log EXCEPT ![h] = @ \o BeginEnd("stats")]
    /\ handler_pc' = [handler_pc EXCEPT ![h] = AfterStop("stats")]
    /\ UNCHANGED <<engine_running_, mainvars, handler_thread, stops_completed, aborted>>
    /\ UNCHANGED <<loggers_started, httpvars, busvars>>
    /\ UNCHANGED not_gvars

\* stop, lines 162-164, QueueClient::disconnect up to the join of the
\* message thread; a thread that joins itself gets std::system_error
EngineStopBus(h) ==
    /\ Runs(h)
    /\ handler_pc[h] = "bus"
    /\ bus_running_' = FALSE
    /\ stop_log' = [stop_log EXCEPT ![h] = Append(@, <<"begin", "bus">>)]
    /\ IF handler_thread[h] = "message"
       THEN aborted' = TRUE /\ UNCHANGED handler_pc
       ELSE handler_pc' = [handler_pc EXCEPT ![h] = "bus_join"] /\ UNCHANGED aborted
    /\ UNCHANGED <<engine_running_, mainvars, handler_thread, stops_completed>>
    /\ UNCHANGED <<loggers_started, httpvars, collector_running>>
    /\ UNCHANGED <<connected_, subscribed, message_pc, deliveries>>
    /\ UNCHANGED not_gvars

\* QueueClient::disconnect, lines 150-161: join, close, reset, connected_ = false
EngineStopBusJoin(h) ==
    /\ Runs(h)
    /\ handler_pc[h] = "bus_join"
    /\ message_pc \in {"none", "exited"}
    /\ connected_' = FALSE
    /\ stop_log' = [stop_log EXCEPT ![h] = Append(@, <<"end", "bus">>)]
    /\ handler_pc' = [handler_pc EXCEPT ![h] = AfterStop("bus")]
    /\ UNCHANGED <<engine_running_, mainvars, handler_thread, stops_completed, aborted>>
    /\ UNCHANGED <<loggers_started, httpvars, collector_running>>
    /\ UNCHANGED <<bus_running_, subscribed, message_pc, deliveries>>
    /\ UNCHANGED not_gvars

\* stop, lines 166-170: the last log message, trade_logger_->stop(),
\* app_logger_->stop()
EngineStopLoggers(h) ==
    /\ Runs(h)
    /\ handler_pc[h] = "loggers"
    /\ loggers_started' = FALSE
    /\ stop_log' = [stop_log EXCEPT ![h] = @ \o BeginEnd("loggers")]
    /\ stops_completed' = stops_completed + 1
    /\ handler_pc' = [handler_pc EXCEPT ![h] = AfterStop("loggers")]
    /\ UNCHANGED <<engine_running_, mainvars, handler_thread, aborted>>
    /\ UNCHANGED <<httpvars, collector_running, busvars>>
    /\ UNCHANGED not_gvars

\* a call of HttpServer::stop has returned
HttpStopReturned ==
    \E h \in Handlers : \E i \in 1..Len(stop_log[h]) : stop_log[h][i] = <<"end", "http">>

\* a call of QueueClient::disconnect has begun
DisconnectBegun ==
    \E h \in Handlers : \E i \in 1..Len(stop_log[h]) : stop_log[h][i] = <<"begin", "bus">>

\* the server thread, lines 152-165: accept a client, enqueue its handling
ServerAccept ==
    /\ Alive
    /\ server_pc = "accept"
    /\ ~stop_flag_
    /\ client_requests < MaxClients
    /\ client_requests' = client_requests + 1
    /\ pool_queued' = pool_queued + 1
    /\ UNCHANGED <<engine_running_, mainvars, sigvars, loggers_started, collector_running>>
    /\ UNCHANGED <<http_running_, stop_flag_, server_pc, client_pc, publishes, busvars>>
    /\ UNCHANGED not_gvars

\* the server thread, line 152: while (!stop_flag_)
ServerExit ==
    /\ Alive
    /\ server_pc = "accept"
    /\ stop_flag_
    /\ server_pc' = "exited"
    /\ UNCHANGED <<engine_running_, mainvars, sigvars, loggers_started, collector_running>>
    /\ UNCHANGED <<http_running_, stop_flag_, client_requests, pool_queued, client_pc>>
    /\ UNCHANGED <<publishes, busvars>>
    /\ UNCHANGED not_gvars

\* a thread of the pool takes handleClientRequest for a POST /order
ClientTake ==
    /\ Alive
    /\ client_pc = "idle"
    /\ pool_queued > 0
    /\ pool_queued' = pool_queued - 1
    /\ client_pc' = "handling"
    /\ UNCHANGED <<engine_running_, mainvars, sigvars, loggers_started, collector_running>>
    /\ UNCHANGED <<http_running_, stop_flag_, server_pc, client_requests, publishes>>
    /\ UNCHANGED busvars
    /\ UNCHANGED not_gvars

\* handleOrderRequest calls QueueClient::publish, lines 168-195
ClientPublish ==
    /\ Alive
    /\ client_pc = "handling"
    /\ publishes' = Append(publishes,
                           [sent |-> connected_,
                            stopped |-> HttpStopReturned,
                            disconnecting |-> DisconnectBegun])
    /\ client_pc' = "idle"
    /\ UNCHANGED <<engine_running_, mainvars, sigvars, loggers_started, collector_running>>
    /\ UNCHANGED <<http_running_, stop_flag_, server_pc, client_requests, pool_queued>>
    /\ UNCHANGED busvars
    /\ UNCHANGED not_gvars

\* processMessages, line 276: while (running_)
MessageExit ==
    /\ MessageRuns
    /\ message_pc = "poll"
    /\ ~bus_running_
    /\ message_pc' = "exited"
    /\ UNCHANGED <<engine_running_, mainvars, sigvars, loggers_started, collector_running>>
    /\ UNCHANGED <<httpvars, connected_, bus_running_, subscribed, deliveries>>
    /\ UNCHANGED not_gvars

\* the message thread consumes an order that matches: the trade callback
\* is called
EmitTrade ==
    /\ MessageRuns
    /\ message_pc = "poll"
    /\ bus_running_
    /\ subscribed
    /\ Len(deliveries) < MaxTradesEmitted
    /\ deliveries' = Append(deliveries, <<>>)
    /\ message_pc' = "log"
    /\ UNCHANGED <<engine_running_, mainvars, sigvars, loggers_started, collector_running>>
    /\ UNCHANGED <<httpvars, connected_, bus_running_, subscribed>>
    /\ UNCHANGED not_gvars

\* handleTrade gives the trade to one sink and goes on
Deliver(sink, given, next) ==
    /\ MessageRuns
    /\ message_pc = sink
    /\ deliveries' = [deliveries EXCEPT ![Len(deliveries)] =
                         IF given THEN Append(@, sink) ELSE @]
    /\ message_pc' = next
    /\ UNCHANGED <<engine_running_, mainvars, sigvars, loggers_started, collector_running>>
    /\ UNCHANGED <<httpvars, connected_, bus_running_, subscribed>>
    /\ UNCHANGED not_gvars

\* handleTrade, line 690: trade_logger_->logTrade(trade)
TradeLog == Deliver("log", TRUE, "stats")

\* handleTrade, lines 693-695: submitTrade if the collector is running
TradeStatistics == Deliver("stats", collector_running, "execute")

\* handleTrade, line 698: executor_->execute(trade)
TradeExecute == Deliver("execute", TRUE, "confirm")

\* handleTrade, lines 701-702: createConfirmation, sendConfirmation
TradeConfirm == Deliver("confirm", TRUE, "poll")

InitProcess ==
    /\ IdleQueue
    /\ InitEngine
    /\ InitUser
    /\ NoIngress
    /\ NoPool
    /\ NoLogger
    /\ NoStats
    /\ NoReaders
    /\ NoBoard
    /\ NoHttp
    /\ NoMessages
    /\ NoRoutes
    /\ StartProcess
    /\ NoAdds

NextStartStop ==
    \/ EngineStartLoggers
    \/ \E ok \in BOOLEAN : EngineStartHttp(ok)
    \/ EngineStartStatistics
    \/ \E ok \in BOOLEAN : EngineConnect(ok)
    \/ EngineSubscribe
    \/ EngineSetRunning
    \/ MainLoopExit
    \/ \E h \in Handlers, thread \in {"main", "message"} : Signal(h, thread)
    \/ \E h \in Handlers : EngineStopCheck(h)
    \/ \E h \in Handlers : EngineStopSet(h)
    \/ \E h \in Handlers : EngineStopHttp(h)
    \/ \E h \in Handlers : EngineStopHttpJoin(h)
    \/ \E h \in Handlers : EngineStopStatistics(h)
    \/ \E h \in Handlers : EngineStopBus(h)
    \/ \E h \in Handlers : EngineStopBusJoin(h)
    \/ \E h \in Handlers : EngineStopLoggers(h)
    \/ ServerExit
    \/ MessageExit

NextShutdown ==
    \/ NextStartStop
    \/ ServerAccept
    \/ ClientTake
    \/ ClientPublish
    \/ EmitTrade
    \/ TradeLog
    \/ TradeStatistics
    \/ TradeExecute
    \/ TradeConfirm

\* the engine starts, trades and client requests arrive, signals stop it
SpecShutdown == InitProcess /\ [][NextShutdown]_vars

\* the steps of the main thread
MainStep ==
    \/ EngineStartLoggers
    \/ \E ok \in BOOLEAN : EngineStartHttp(ok)
    \/ EngineStartStatistics
    \/ \E ok \in BOOLEAN : EngineConnect(ok)
    \/ EngineSubscribe
    \/ EngineSetRunning
    \/ MainLoopExit

\* the steps of one invocation of signalHandler
HandlerStep(h) ==
    \/ EngineStopCheck(h)
    \/ EngineStopSet(h)
    \/ EngineStopHttp(h)
    \/ EngineStopHttpJoin(h)
    \/ EngineStopStatistics(h)
    \/ EngineStopBus(h)
    \/ EngineStopBusJoin(h)
    \/ EngineStopLoggers(h)

\* the steps the message thread takes by itself
MessageStep == MessageExit \/ TradeLog \/ TradeStatistics \/ TradeExecute \/ TradeConfirm

\* every thread and every signal handler that can take a step takes it in
\* the end; signals, client requests and orders arrive or do not
FairSpecShutdown ==
    /\ SpecShutdown
    /\ WF_vars(MainStep)
    /\ \A h \in Handlers : WF_vars(HandlerStep(h))
    /\ WF_vars(ServerExit)
    /\ WF_vars(MessageStep)
    /\ WF_vars(ClientTake \/ ClientPublish)

(***************************************************************************)
(* OrderBook::addOrder with any argument                                   *)
(***************************************************************************)

MaxAdds == 2

\* a null shared_ptr<Order>
NullOrder ==
    [null |-> TRUE, id |-> 0, symbol |-> "", side |-> "", price |-> 0, status |-> ""]

\* the Order objects addOrder is called with: any symbol, any value of the
\* OrderSide byte, any status
OrderArguments(id) ==
    {NullOrder} \cup
    {[null |-> FALSE, id |-> id, symbol |-> symbol, side |-> side, price |-> price,
      status |-> status] :
        symbol \in Symbols, side \in Sides \cup {"OTHER"}, price \in Prices,
        status \in {"PENDING", "FILLED"}}

addOrder_NoSymbolCheck(buy_orders, sell_orders, order) ==
    IF order.null
    THEN [returned |-> FALSE, buy_orders_ |-> buy_orders, sell_orders_ |-> sell_orders,
          status |-> order.status]
    ELSE IF order.side = "BUY"
    THEN [returned |-> TRUE, buy_orders_ |-> PushBack(buy_orders, order.price, order.id),
          sell_orders_ |-> sell_orders, status |-> "PENDING"]
    ELSE IF order.side = "SELL"
    THEN [returned |-> TRUE, buy_orders_ |-> buy_orders,
          sell_orders_ |-> PushBack(sell_orders, order.price, order.id),
          status |-> "PENDING"]
    ELSE [returned |-> FALSE, buy_orders_ |-> buy_orders, sell_orders_ |-> sell_orders,
          status |-> order.status]

\* OrderBook::addOrder: what it returns, the two sides of the book and the
\* status of the order after the call
addOrder(buy_orders, sell_orders, order) ==
    IF order.null
    THEN [returned |-> FALSE, buy_orders_ |-> buy_orders, sell_orders_ |-> sell_orders,
          status |-> order.status]
    ELSE IF order.symbol # BookSymbol
    THEN [returned |-> FALSE, buy_orders_ |-> buy_orders, sell_orders_ |-> sell_orders,
          status |-> order.status]
    ELSE IF order.side = "BUY"
    THEN [returned |-> TRUE, buy_orders_ |-> PushBack(buy_orders, order.price, order.id),
          sell_orders_ |-> sell_orders, status |-> "PENDING"]
    ELSE IF order.side = "SELL"
    THEN [returned |-> TRUE, buy_orders_ |-> buy_orders,
          sell_orders_ |-> PushBack(sell_orders, order.price, order.id),
          status |-> "PENDING"]
    ELSE [returned |-> FALSE, buy_orders_ |-> buy_orders, sell_orders_ |-> sell_orders,
          status |-> order.status]

\* one call of addOrder on the book
AddOrderCall(order) ==
    /\ Len(add_log) < MaxAdds
    /\ \E r \in {addOrder(buy_orders_, sell_orders_, order)} :
          /\ buy_orders_' = r.buy_orders_
          /\ sell_orders_' = r.sell_orders_
          /\ add_log' = Append(add_log,
                               [order |-> order, returned |-> r.returned,
                                status |-> r.status,
                                buy_before |-> buy_orders_, sell_before |-> sell_orders_,
                                buy_after |-> r.buy_orders_,
                                sell_after |-> r.sell_orders_])
    /\ UNCHANGED <<orders, submitted, trades, total_trades_, total_volume_,
                   next_trade_id_, last_match, handled, users_>>
    /\ UNCHANGED <<qvars, uvars, ivars>>
    /\ UNCHANGED <<pvars, lvars, svars, rvars, bvars, hvars, mvars, tvars, gvars>>

InitAdds ==
    /\ IdleQueue
    /\ InitEngine
    /\ InitUser
    /\ NoIngress
    /\ NoPool
    /\ NoLogger
    /\ NoStats
    /\ NoReaders
    /\ NoBoard
    /\ NoHttp
    /\ NoMessages
    /\ NoRoutes
    /\ NoLifecycle
    /\ NoAdds

NextAdds == \E order \in OrderArguments(Len(add_log) + 1) : AddOrderCall(order)

\* addOrder called on one book with orders of every kind
SpecAdds == InitAdds /\ [][NextAdds]_vars

\* a User with some starting cash; any quantity, price and fee, valid or not
InitUsers ==
    /\ IdleQueue
    /\ InitEngine
    /\ \E cash \in 0..MaxCash : StartUser(cash)
    /\ NoIngress
    /\ NoServices

\* a quantity, a price or a fee that applyExecution refuses
InvalidExecutions == {<<0, 0, 0>>, <<Epsilon, -1, 0>>, <<Epsilon, 0, -1>>}

NextUser ==
    \/ \E side \in Sides, symbol \in Symbols, q \in 1..MaxQty,
          p \in {0, MaxPrice}, fee \in {0, MaxFee} :
          ApplyExecution(side, symbol, q, p, fee)
    \/ \E side \in Sides, symbol \in Symbols, bad \in InvalidExecutions :
          ApplyExecution(side, symbol, bad[1], bad[2], bad[3])
    \/ \E amount \in {-1, 0, MaxCash} : DepositCash(amount)
    \/ \E amount \in {-1, 0, MaxCash} : WithdrawCash(amount)

\* calls on one User object
SpecUser == InitUsers /\ [][NextUser]_vars

Producer(p, max_enqueues) ==
    \/ EnqueueClaim(p, max_enqueues)
    \/ EnqueueLoad(p)
    \/ EnqueueWait(p)
    \/ EnqueueConstruct(p)
    \/ EnqueuePublish(p)
    \/ EnqueueNotify(p)

Consumer ==
    \/ DequeueCheck
    \/ DequeueMove
    \/ DequeueRelease
    \/ DequeueNotify
    \/ DequeueAdvance

NextQueue ==
    \/ \E p \in Producers : Producer(p, MaxEnqueues)
    \/ \E p \in Producers : SpuriousWake(p)
    \/ Consumer

\* producers and one consumer on a queue
SpecQueue == Init /\ [][NextQueue]_vars

\* the steps of a producer that has claimed a position
EnqueueRun(p) ==
    \/ EnqueueLoad(p)
    \/ EnqueueWait(p)
    \/ EnqueueConstruct(p)
    \/ EnqueuePublish(p)
    \/ EnqueueNotify(p)

InitLaps == StartQueue(LapProducers) /\ InitEngine /\ InitUser /\ NoIngress
            /\ NoServices

\* the calls of enqueue each thread of the run makes: the first thread fills
\* the ring and calls again, every other thread calls once
LapCalls(p) == IF p = 1 THEN MaxLapEnqueues - (NumLapProducers - 1) ELSE 1

NextLaps ==
    \/ \E p \in LapProducers :
          pcount[p] < LapCalls(p) /\ EnqueueClaim(p, MaxLapEnqueues)
    \/ \E p \in LapProducers : EnqueueRun(p)
    \/ \E p \in LapProducers : SpuriousWake(p)
    \/ Consumer

\* every thread that can take a step is scheduled again, and the consumer
\* keeps calling try_dequeue; no wait is assumed to end spuriously
FairSpecQueue ==
    /\ InitLaps
    /\ [][NextLaps]_vars
    /\ WF_vars(Consumer)
    /\ \A p \in LapProducers : WF_vars(EnqueueRun(p))

NextQueueSize ==
    \/ \E p \in Producers : Producer(p, MaxEnqueues)
    \/ \E p \in Producers : SpuriousWake(p)
    \/ Consumer
    \/ SizeLoadEnqueue
    \/ SizeLoadDequeue

\* producers, one consumer and a thread that calls size()
SpecQueueSize == Init /\ [][NextQueueSize]_vars

(***************************************************************************)
(* StatisticsCollector: submitting threads, the collector thread, stop()   *)
(***************************************************************************)

\* the trade event a submitting thread makes of its k-th trade
EventOf(item) == TradeEvent(BookSymbol, item, min_quantity_, 0)

\* StatisticsCollector(config) and start(): the queue is empty and the
\* collector thread is at the top of its loop
StartStats ==
    /\ instrument_stats_ = <<>>
    /\ stats_log = <<>>
    /\ running_ = TRUE
    /\ stop_requested_ = FALSE
    /\ collector_pc = "test"
    /\ total_trades_processed_ = 0
    /\ total_trades_dropped_ = 0
    /\ submits = [p \in Producers |-> "idle"]
    /\ returned_true = [p \in Producers |-> 0]
    /\ acknowledged = {}
    /\ stats_stop = "idle"
    /\ acknowledged_at_stop = {}

\* submitTradeEvent, lines 75-77: false when the collector is not running
SubmitCheck(p) ==
    /\ submits[p] = "idle"
    /\ submits' = [submits EXCEPT ![p] = IF running_ THEN "enqueue" ELSE "refused"]
    /\ UNCHANGED <<instrument_stats_, stats_log, running_, stop_requested_,
                   collector_pc, total_trades_processed_, total_trades_dropped_,
                   returned_true, acknowledged, stats_stop, acknowledged_at_stop>>
    /\ UNCHANGED qvars
    /\ UNCHANGED not_svars

\* submitTradeEvent, line 81: trade_queue_->enqueue(event) begins
SubmitEnqueue(p) ==
    /\ submits[p] = "enqueue"
    /\ pcount[p] = returned_true[p]
    /\ EnqueueClaim(p, MaxEnqueues)

\* submitTradeEvent, line 82: enqueue has returned, submit returns true
SubmitReturn(p) ==
    /\ submits[p] = "enqueue"
    /\ ppc[p] = "idle"
    /\ pcount[p] = returned_true[p] + 1
    /\ returned_true' = [returned_true EXCEPT ![p] = @ + 1]
    /\ acknowledged' = acknowledged \cup {Item(p, pcount[p])}
    /\ submits' = [submits EXCEPT ![p] = "idle"]
    /\ UNCHANGED <<instrument_stats_, stats_log, running_, stop_requested_,
                   collector_pc, total_trades_processed_, total_trades_dropped_,
                   stats_stop, acknowledged_at_stop>>
    /\ UNCHANGED qvars
    /\ UNCHANGED not_svars

\* collectorLoop, line 125: the loop test
CollectorTest ==
    /\ collector_pc = "test"
    /\ collector_pc' = IF stop_requested_ THEN "drain" ELSE "try"
    /\ UNCHANGED <<instrument_stats_, stats_log, running_, stop_requested_,
                   total_trades_processed_, total_trades_dropped_, submits,
                   returned_true, acknowledged, stats_stop, acknowledged_at_stop>>
    /\ UNCHANGED qvars
    /\ UNCHANGED not_svars

\* collectorLoop, lines 127 and 144: try_dequeue begins; when it returns
\* false the loop sleeps and tests again, and the drain loop ends
CollectorCheck ==
    /\ collector_pc \in {"try", "drain"}
    /\ TryDequeueCheck
    /\ collector_pc' =
          IF Readable(sequence[Cell(dequeue_pos_)], dequeue_pos_) THEN collector_pc
          ELSE IF collector_pc = "try" THEN "test" ELSE "returned"
    /\ UNCHANGED <<instrument_stats_, stats_log, running_, stop_requested_,
                   total_trades_processed_, total_trades_dropped_, submits,
                   returned_true, acknowledged, stats_stop, acknowledged_at_stop>>
    /\ UNCHANGED not_svars

\* collectorLoop, lines 128-129 and 145-146: try_dequeue returns true,
\* processTradeEvent(event) and the counter
CollectorProcess ==
    /\ TryDequeueAdvance
    /\ instrument_stats_' =
          updateStatistics(instrument_stats_, EventOf(cval).symbol,
                           EventOf(cval).price, EventOf(cval).quantity,
                           EventOf(cval).timestamp)
    /\ stats_log' = Append(stats_log, EventOf(cval))
    /\ total_trades_processed_' = total_trades_processed_ + 1
    /\ collector_pc' = IF collector_pc = "try" THEN "test" ELSE collector_pc
    /\ UNCHANGED <<running_, stop_requested_, total_trades_dropped_, submits,
                   returned_true, acknowledged, stats_stop, acknowledged_at_stop>>
    /\ UNCHANGED not_svars

\* stop(), lines 46-51: the collector runs; stop_requested_.store(true)
StatsStopRequest ==
    /\ stats_stop = "idle"
    /\ running_
    /\ stop_requested_' = TRUE
    /\ stats_stop' = "requested"
    /\ UNCHANGED <<instrument_stats_, stats_log, running_, collector_pc,
                   total_trades_processed_, total_trades_dropped_, submits,
                   returned_true, acknowledged, acknowledged_at_stop>>
    /\ UNCHANGED qvars
    /\ UNCHANGED not_svars

\* stop(), line 52: running_.store(false)
StatsStopRunning ==
    /\ stats_stop = "requested"
    /\ running_' = FALSE
    /\ stats_stop' = "join"
    /\ UNCHANGED <<instrument_stats_, stats_log, stop_requested_, collector_pc,
                   total_trades_processed_, total_trades_dropped_, submits,
                   returned_true, acknowledged, acknowledged_at_stop>>
    /\ UNCHANGED qvars
    /\ UNCHANGED not_svars

\* stop(), lines 55-57: collector_thread_.join() and return
StatsStopJoin ==
    /\ stats_stop = "join"
    /\ collector_pc = "returned"
    /\ stats_stop' = "returned"
    /\ acknowledged_at_stop' = acknowledged
    /\ UNCHANGED <<instrument_stats_, stats_log, running_, stop_requested_,
                   collector_pc, total_trades_processed_, total_trades_dropped_,
                   submits, returned_true, acknowledged>>
    /\ UNCHANGED qvars
    /\ UNCHANGED not_svars

InitStats ==
    /\ InitQueue
    /\ InitEngine
    /\ InitUser
    /\ NoIngress
    /\ NoPool
    /\ NoLogger
    /\ StartStats
    /\ NoReaders
    /\ NoBoard
    /\ NoHttp
    /\ NoMessages
    /\ NoRoutes
    /\ NoLifecycle
    /\ NoAdds

NextStats ==
    \/ \E p \in Producers : SubmitCheck(p)
    \/ \E p \in Producers : SubmitEnqueue(p)
    \/ \E p \in Producers : EnqueueRun(p)
    \/ \E p \in Producers : SpuriousWake(p)
    \/ \E p \in Producers : SubmitReturn(p)
    \/ CollectorTest
    \/ CollectorCheck
    \/ DequeueMove
    \/ DequeueRelease
    \/ DequeueNotify
    \/ CollectorProcess
    \/ StatsStopRequest
    \/ StatsStopRunning
    \/ StatsStopJoin

\* threads submitting trades to a running collector that is then stopped
SpecStats == InitStats /\ [][NextStats]_vars

\* every capacity the constructor accepts, from the smallest one
AnyCapacityArgs == 1..MaxCapacityArg

InitAnyQueue ==
    /\ StartQueueOf(Producers, AnyCapacityArgs)
    /\ InitEngine
    /\ InitUser
    /\ NoIngress
    /\ NoServices

\* producers and one consumer on a queue of any capacity
SpecAnyQueue == InitAnyQueue /\ [][NextQueue]_vars

(***************************************************************************)
(* Properties of the queue                                                 *)
(***************************************************************************)

\* C1: with capacity >= 2, the values returned by successful try_dequeue
\* calls are the enqueued values in the order in which their producers
\* claimed positions: nothing lost before it, duplicated or reordered.
C1_FifoByClaimOrder ==
    capacity_ >= 2 =>
        /\ Len(dequeued) <= Len(claimed)
        /\ \A i \in 1..Len(dequeued) : dequeued[i] = claimed[i]

\* the ring has wrapped and values of two producers have come out
C1_Witness ==
    /\ capacity_ >= 2
    /\ Len(dequeued) > capacity_ + 1
    /\ \E i, j \in 1..Len(dequeued) : dequeued[i] \div 10 # dequeued[j] \div 10

\* C2: size() never returns more than capacity(), also while producers
\* are blocked inside enqueue on a full queue.
C2_SizeAtMostCapacity == size_result <= capacity_

\* C3: every enqueue call that blocked on a full queue eventually returns
\* while the consumer keeps calling try_dequeue.
C3_BlockedEnqueueReturns ==
    \A p \in LapProducers : (ppc[p] = "parked") ~> (ppc[p] = "idle")

(***************************************************************************)
(* Properties of the matching engine and the book                          *)
(***************************************************************************)

RECURSIVE FilledQuantity(_, _)
\* the quantity of the trades in trs that name order n
FilledQuantity(trs, n) ==
    IF trs = <<>> THEN 0
    ELSE (IF Head(trs).buy_order_id = n \/ Head(trs).sell_order_id = n
          THEN Head(trs).quantity ELSE 0) + FilledQuantity(Tail(trs), n)

\* C4: for every order, the trades that name it add up to at most the
\* quantity the order was submitted with.
C4_FillsAtMostOrderQuantity ==
    \A n \in 1..Len(orders) : FilledQuantity(trades, n) <= submitted[n]

InBook == Resting(orders, buy_orders_) \cup Resting(orders, sell_orders_)

\* C5: the book holds no order whose remaining quantity is 0, and toJSON
\* shows no price level whose quantity is 0.
C5_NoExhaustedOrderOrLevel ==
    LET js == toJSON(orders, buy_orders_, sell_orders_)
    IN /\ \A o \in InBook : o.quantity > 0
       /\ \A i \in 1..Len(js.bids) : js.bids[i].quantity > 0
       /\ \A i \in 1..Len(js.asks) : js.asks[i].quantity > 0

LivePrices(levels) == {o.price : o \in {r \in Resting(orders, levels) : r.quantity > 0}}

\* C6: getBestBid is the highest buy price with remaining quantity and
\* getBestAsk the lowest such sell price, 0 when there is none.
C6_BestPricesHaveQuantity ==
    /\ getBestBid(buy_orders_) =
         IF LivePrices(buy_orders_) = {} THEN 0
         ELSE CHOOSE p \in LivePrices(buy_orders_) :
                 \A r \in LivePrices(buy_orders_) : r <= p
    /\ getBestAsk(sell_orders_) =
         IF LivePrices(sell_orders_) = {} THEN 0
         ELSE CHOOSE p \in LivePrices(sell_orders_) :
                 \A r \in LivePrices(sell_orders_) : p <= r

\* C7: every trade emitted has quantity > 0 and price > 0.
C7_TradesArePositive ==
    \A i \in 1..Len(trades) : trades[i].quantity > 0 /\ trades[i].price > 0

\* the resting and the incoming order of a trade of the last matchOrder call
RestingId(trade) ==
    IF last_match.side = "BUY" THEN trade.sell_order_id ELSE trade.buy_order_id

IncomingId(trade) ==
    IF last_match.side = "BUY" THEN trade.buy_order_id ELSE trade.sell_order_id

RestingOrder(trade) == CHOOSE r \in last_match.opposite : r.id = RestingId(trade)

\* resting order a is ahead of resting order b for the last incoming order:
\* a better price, or the same price and an earlier arrival
Ahead(a, b) ==
    \/ last_match.side = "BUY" /\ a.price < b.price
    \/ last_match.side = "SELL" /\ a.price > b.price
    \/ a.price = b.price /\ a.id < b.id

RECURSIVE SumTrades(_, _)
\* the quantity of the first k trades of trs
SumTrades(trs, k) ==
    IF k = 0 THEN 0 ELSE trs[k].quantity + SumTrades(trs, k - 1)

\* the resting orders a limit order may trade with
Crossing ==
    {r \in last_match.opposite :
        IF last_match.side = "BUY" THEN r.price <= last_match.price
                                   ELSE r.price >= last_match.price}

\* C8: a LIMIT order trades with the crossing resting orders only, best
\* price first and first-in-first-out within a price, each fill being the
\* minimum of what is left of both, until it is exhausted or no crossing
\* order is left, and every trade carries the incoming limit price.
C8_LimitOrderWalk ==
    last_match.type = "LIMIT" =>
        LET T == last_match.trades
        IN /\ \A i \in 1..Len(T) :
                /\ T[i].price = last_match.price
                /\ IncomingId(T[i]) = last_match.order
                /\ \E r \in Crossing : r.id = RestingId(T[i])
                /\ \A j \in 1..Len(T) : i # j => RestingId(T[i]) # RestingId(T[j])
                /\ \A r \in Crossing :
                      Ahead(r, RestingOrder(T[i])) =>
                          \E j \in 1..(i - 1) : RestingId(T[j]) = r.id
                /\ SumTrades(T, i - 1) < last_match.quantity
                /\ T[i].quantity = Min(last_match.quantity - SumTrades(T, i - 1),
                                       RestingOrder(T[i]).quantity)
           /\ (\E r \in Crossing : \A i \in 1..Len(T) : RestingId(T[i]) # r.id)
                 => SumTrades(T, Len(T)) >= last_match.quantity

\* a limit order that traded across two price levels, the first of them
\* better than its own price
C8_Witness ==
    /\ last_match.type = "LIMIT"
    /\ Len(last_match.trades) >= 2
    /\ RestingOrder(last_match.trades[1]).price # last_match.price
    /\ RestingOrder(last_match.trades[1]).price
         # RestingOrder(last_match.trades[2]).price

\* the top of the opposite side when the last matchOrder call began
BestOpposite ==
    LET prices == {r.price : r \in last_match.opposite}
    IN IF prices = {} THEN 0
       ELSE IF last_match.side = "BUY"
            THEN CHOOSE p \in prices : \A r \in prices : p <= r
            ELSE CHOOSE p \in prices : \A r \in prices : r <= p

\* C9: every trade of a MARKET order carries the best opposite price read
\* when matching began, only resting orders at that price or better are
\* filled, and an empty opposite side gives no trade.
C9_MarketOrderAtTopOfBook ==
    last_match.type = "MARKET" =>
        LET T == last_match.trades
        IN /\ last_match.opposite = {} => T = <<>>
           /\ \A i \in 1..Len(T) :
                /\ T[i].price = BestOpposite
                /\ IncomingId(T[i]) = last_match.order
                /\ \E r \in last_match.opposite : r.id = RestingId(T[i])
                /\ IF last_match.side = "BUY"
                   THEN RestingOrder(T[i]).price <= BestOpposite
                   ELSE RestingOrder(T[i]).price >= BestOpposite

\* a market order that traded at the top of the book and stopped there with
\* quantity left, a resting order at a worse price staying unfilled
C9_Witness ==
    /\ last_match.type = "MARKET"
    /\ Len(last_match.trades) >= 1
    /\ last_match.trades[1].quantity > 0
    /\ SumTrades(last_match.trades, Len(last_match.trades)) < last_match.quantity
    /\ \E r \in last_match.opposite : r.price # BestOpposite /\ r.quantity > 0

\* the order of a trade that was in the book before the other one arrived
EarlierOrder(trade) == orders[Min(trade.buy_order_id, trade.sell_order_id)]

\* C10: no MARKET order rests in the book: none is returned by getBuyOrders
\* or getSellOrders, and none is the resting side of a trade.
C10_MarketOrderNeverRests ==
    /\ \A o \in InBook : o.type # "MARKET"
    /\ \A i \in 1..Len(trades) : EarlierOrder(trades[i]).type # "MARKET"

\* the orders named by a trade
TradeOrders(trade) == {orders[trade.buy_order_id], orders[trade.sell_order_id]}

\* C11: no STOP order is passed to matchOrder by processOrderFromQueue, and
\* no STOP order that arrived on the bus is the incoming or the resting
\* order of a trade.
C11_StopOrderNeverMatched ==
    /\ last_match.type # "STOP"
    /\ \A i \in 1..Len(trades) : \A o \in TradeOrders(trades[i]) : o.type # "STOP"

RECURSIVE Decimal(_)
\* the number a sequence of decimal digits writes
Decimal(digits) ==
    IF digits = <<>> THEN 0
    ELSE 10 * Decimal(SubSeq(digits, 1, Len(digits) - 1)) + digits[Len(digits)]

RECURSIVE Notional(_, _)
\* the sum of quantity * price over the first k trades of trs
Notional(trs, k) ==
    IF k = 0 THEN 0 ELSE trs[k].quantity * trs[k].price + Notional(trs, k - 1)

\* C12: the trades emitted so far carry the ids 1, 2, 3, ... in emission
\* order, getTotalTrades() is their number and getTotalVolume() the sum of
\* quantity * price over them.
C12_TradeIdsAndTotals ==
    /\ \A i \in 1..Len(trades) : Decimal(trades[i].trade_id) = i
    /\ total_trades_ = Len(trades)
    /\ total_volume_ = Notional(trades, Len(trades))

\* trades of two matchOrder calls, with different amounts
C12_Witness ==
    /\ Len(last_match.trades) >= 1
    /\ Len(trades) > Len(last_match.trades)
    /\ trades[1].quantity * trades[1].price
         # trades[Len(trades)].quantity * trades[Len(trades)].price
    /\ total_volume_ > 0

(***************************************************************************)
(* Properties of the User                                                  *)
(***************************************************************************)

\* the quantity held in a symbol by User u, 0 when there is no position
Held(u, symbol) ==
    IF symbol \in DOMAIN u.symbol_to_position_
    THEN u.symbol_to_position_[symbol].quantity ELSE 0

\* the last call is an applyExecution call the claim says must fail, a SELL
\* counting as an oversell when it exceeds the held quantity by more than
\* tolerance
MustFail(tolerance) ==
    /\ user_call.op = "applyExecution"
    /\ \/ user_call.quantity <= 0
       \/ user_call.price < 0
       \/ user_call.fee < 0
       \/ /\ user_call.side = "BUY"
          /\ user_call.quantity * user_call.price + user_call.fee
               > user_call.before.cash_balance_
       \/ /\ user_call.side = "SELL"
          /\ \/ user_call.symbol \notin DOMAIN user_call.before.symbol_to_position_
             \/ user_call.quantity
                  > Held(user_call.before, user_call.symbol) + tolerance

\* C14 as stated: applyExecution returns false and leaves cash, realized
\* PnL and the position entries unchanged whenever quantity <= 0, price < 0,
\* fee < 0, a BUY costs more than the cash, or a SELL names a symbol with no
\* position or more than the held quantity.
C14_RejectedWithoutMutation ==
    MustFail(0) => ~user_call.ok /\ user = user_call.before

\* C14 amended: the same, a SELL being rejected when it exceeds the held
\* quantity by more than the tolerance 1e-12.
C14_RejectedBeyondTolerance ==
    MustFail(Epsilon) => ~user_call.ok /\ user = user_call.before

\* a SELL of more than the held quantity plus the tolerance was rejected,
\* the symbol having a position entry
C14_Witness ==
    /\ user_call.op = "applyExecution"
    /\ user_call.side = "SELL"
    /\ user_call.quantity > 0 /\ user_call.price >= 0 /\ user_call.fee >= 0
    /\ user_call.symbol \in DOMAIN user_call.before.symbol_to_position_
    /\ user_call.quantity > Held(user_call.before, user_call.symbol) + Epsilon
    /\ ~user_call.ok

\* C16: the cash balance of a User that started with non-negative cash is
\* never negative, after any execution, deposit or withdrawal.
C16_CashNeverNegative == user.cash_balance_ >= 0

\* C17: while only BUYs have been applied to a symbol, its position has the
\* quantity bought and the average price cost / quantity, whatever the fees.
C17_WeightedAveragePrice ==
    \A symbol \in Symbols :
        (~sold[symbol] /\ bought[symbol].quantity > 0) =>
            /\ symbol \in DOMAIN user.symbol_to_position_
            /\ user.symbol_to_position_[symbol].quantity = bought[symbol].quantity
            /\ user.symbol_to_position_[symbol].average_price
                 = Ratio(bought[symbol].cost, bought[symbol].quantity)

\* two BUYs of a symbol at different prices, the second one with a fee
C17_Witness ==
    /\ user_call.op = "applyExecution" /\ user_call.side = "BUY" /\ user_call.ok
    /\ user_call.fee > 0
    /\ ~sold[user_call.symbol]
    /\ bought[user_call.symbol].quantity > user_call.quantity
    /\ user.symbol_to_position_[user_call.symbol].average_price
         # Whole(user_call.price)

\* C18: a position whose quantity is 0 has average_price 0.
C18_FlatPositionHasNoPrice ==
    \A symbol \in DOMAIN user.symbol_to_position_ :
        user.symbol_to_position_[symbol].quantity = 0 =>
            user.symbol_to_position_[symbol].average_price = Zero

\* a position bought at a positive price has been sold down to 0
C18_Witness ==
    /\ user_call.op = "applyExecution" /\ user_call.side = "SELL" /\ user_call.ok
    /\ user_call.before.symbol_to_position_[user_call.symbol].average_price # Zero
    /\ user.symbol_to_position_[user_call.symbol].quantity = 0

(***************************************************************************)
(* Properties of the portfolios of the engine                              *)
(***************************************************************************)

\* the User of a user id in a users_ map, as getOrCreateUser gives it
UserOf(users, user_id) ==
    IF user_id \in DOMAIN users THEN users[user_id]
    ELSE NewUser(DefaultStartingCash)

\* trade i of the last matchOrder call is one its buyer cannot pay for
Unaffordable(i) ==
    LET trade == last_match.trades[i]
    IN /\ trade.quantity > 0
       /\ trade.quantity * trade.price
            > UserOf(last_match.portfolios[i], trade.buy_user_id).cash_balance_

\* trade i is emitted and counted, the resting order is reduced, the buyer is
\* as before and the SELL leg has acted on the seller, who gets the proceeds
\* and gives the quantity if the position holds it
NotRolledBack(i) ==
    LET trade == last_match.trades[i]
        buyer == UserOf(last_match.portfolios[i], trade.buy_user_id)
        seller == UserOf(last_match.portfolios[i], trade.sell_user_id)
        buyer_after == UserOf(last_match.portfolios[i + 1], trade.buy_user_id)
        seller_after == UserOf(last_match.portfolios[i + 1], trade.sell_user_id)
        amount == trade.quantity * trade.price
    IN /\ \E k \in 1..Len(trades) : trades[k] = trade
       /\ total_trades_ = Len(trades)
       /\ total_volume_ = Notional(trades, Len(trades))
       /\ orders[RestingId(trade)].quantity
            = RestingOrder(trade).quantity - trade.quantity
       /\ buyer_after = buyer
       /\ IF /\ BookSymbol \in DOMAIN seller.symbol_to_position_
             /\ trade.quantity <= Held(seller, BookSymbol) + Epsilon
          THEN /\ seller_after.cash_balance_ = seller.cash_balance_ + amount
               /\ Held(seller_after, BookSymbol)
                    = IF Held(seller, BookSymbol) - trade.quantity <= Epsilon
                      THEN 0
                      ELSE Held(seller, BookSymbol) - trade.quantity
          ELSE seller_after = seller

C15_NoShortPosition ==
    /\ \A u \in DOMAIN users_ : \A symbol \in DOMAIN users_[u].symbol_to_position_ :
          users_[u].symbol_to_position_[symbol].quantity >= 0
    /\ \A i \in 1..Len(last_match.portfolios) :
          \A u \in DOMAIN last_match.portfolios[i] :
              Held(last_match.portfolios[i][u], BookSymbol) >= 0

\* the SELL leg of a trade took a seller's position down
C15_Witness ==
    \E i \in 1..Len(last_match.trades) :
        Held(UserOf(last_match.portfolios[i + 1], last_match.trades[i].sell_user_id),
             BookSymbol)
          < Held(UserOf(last_match.portfolios[i], last_match.trades[i].sell_user_id),
                 BookSymbol)

(***************************************************************************)
(* Properties of the ingress pipeline                                      *)
(***************************************************************************)

\* the requests of user u in a sequence of requests
OfUser(seq, u) == SelectSeq(seq, LAMBDA r : requests[r].userId = u)

IsPrefix(a, b) ==
    /\ Len(a) <= Len(b)
    /\ \A i \in 1..Len(a) : a[i] = b[i]

\* C19: for a fixed userId, the subscriber invokes processOrderFromQueue on
\* that user's orders in the order in which their publish calls were made.
C19_PerUserPublishOrder ==
    \A u \in Users : IsPrefix(OfUser(processed, u), OfUser(published, u))

\* two orders of one user were published against the order of their ids and
\* processed, and the orders of all users were not processed in publish order
C19_Witness ==
    /\ \E u \in Users :
          /\ Len(OfUser(processed, u)) >= 2
          /\ OfUser(processed, u)[1] > OfUser(processed, u)[2]
    /\ ~IsPrefix(processed, published)

\* C20: five requests of one user with ids U0..U4 submitted in that order
\* are processed in the order U0, U1, U2, U3, U4.
C20_ProcessedInSubmissionOrder ==
    \A i, j \in 1..Len(processed) : i < j => processed[i] < processed[j]

(***************************************************************************)
(* Properties of the thread pool                                           *)
(***************************************************************************)

\* C21: every task whose enqueue call returned is executed exactly once, and
\* the destructor of the pool does not return until all such tasks,
\* including those still queued when destruction began, have finished.
C21_TasksRunOnceBeforeDestruction ==
    /\ \A t \in DOMAIN started : started[t] <= 1
    /\ pool_pc = "returned" =>
          \A t \in 1..enqueued : started[t] = 1 /\ t \in finished

\* the destructor has returned, and tasks were queued when it began
C21_Witness ==
    /\ pool_pc = "returned"
    /\ left_at_stop >= 2
    /\ enqueued = MaxTasks

(***************************************************************************)
(* Properties of the asynchronous logger                                   *)
(***************************************************************************)

\* the messages of a sequence
Range(seq) == {seq[i] : i \in DOMAIN seq}

\* C22: when any call to stop() returns, every message whose addLog call
\* completed before that call began has been written to the log file.
C22_WrittenWhenStopReturns ==
    \A t \in DOMAIN stoppers :
        stoppers[t] = "returned" => before_stop[t] \subseteq Range(written)

(***************************************************************************)
(* Properties of the statistics                                            *)
(***************************************************************************)

\* the processed trades of a symbol that fall in a period of a timeframe
TradesIn(symbol, timeframe, period) ==
    SelectSeq(stats_log, LAMBDA e : /\ e.symbol = symbol
                                    /\ PeriodOf(timeframe, e.timestamp) = period)

\* the processed trades of a symbol
TradesOf(symbol) == SelectSeq(stats_log, LAMBDA e : e.symbol = symbol)

RECURSIVE MaxPriceOf(_, _)
MaxPriceOf(events, n) ==
    IF n = 1 THEN events[1].price ELSE Max(MaxPriceOf(events, n - 1), events[n].price)

RECURSIVE MinPriceOf(_, _)
MinPriceOf(events, n) ==
    IF n = 1 THEN events[1].price ELSE Min(MinPriceOf(events, n - 1), events[n].price)

RECURSIVE VolumeOf(_, _)
VolumeOf(events, n) ==
    IF n = 0 THEN 0 ELSE VolumeOf(events, n - 1) + events[n].quantity

RECURSIVE DollarVolumeOf(_, _)
DollarVolumeOf(events, n) ==
    IF n = 0 THEN 0
    ELSE DollarVolumeOf(events, n - 1) + events[n].price * events[n].quantity

\* the bucket is the summary of a non-empty sequence of trades
Summarizes(bucket, events) ==
    /\ bucket.open = events[1].price
    /\ bucket.close = events[Len(events)].price
    /\ bucket.high = MaxPriceOf(events, Len(events))
    /\ bucket.low = MinPriceOf(events, Len(events))
    /\ bucket.volume = VolumeOf(events, Len(events))
    /\ bucket.dollar_volume = DollarVolumeOf(events, Len(events))
    /\ bucket.trade_count = Len(events)
    /\ bucket.low <= bucket.open /\ bucket.open <= bucket.high
    /\ bucket.low <= bucket.close /\ bucket.close <= bucket.high

\* C25: after the trades (p1,q1), ..., (pn,qn) of one symbol within one
\* period, each configured timeframe bucket has open = p1, close = pn,
\* high = max p_i, low = min p_i, volume = sum q_i, dollar_volume =
\* sum p_i q_i and trade_count = n, so that low <= open, close <= high.
C25_BucketSummarizesPeriod ==
    \A symbol \in Symbols : \A i \in DOMAIN Timeframes :
        LET events == TradesOf(symbol)
        IN (/\ events # <<>>
            /\ \A k \in DOMAIN events :
                  PeriodOf(Timeframes[i], events[k].timestamp)
                    = PeriodOf(Timeframes[i], events[1].timestamp)) =>
              /\ symbol \in DOMAIN instrument_stats_
              /\ Timeframes[i] \in DOMAIN instrument_stats_[symbol].timeframes
              /\ Summarizes(instrument_stats_[symbol].timeframes[Timeframes[i]],
                            events)

\* three trades of one symbol at different prices in one minute
C25_Witness ==
    \E symbol \in Symbols :
        LET events == TradesOf(symbol)
        IN /\ Len(events) = MaxEvents
           /\ events[1].timestamp = events[Len(events)].timestamp
           /\ events[1].price < events[2].price
           /\ events[3].price < events[2].price
           /\ events[1].quantity # events[2].quantity

\* C26: each timeframe bucket of a symbol reflects only the trades whose
\* timestamps fall in the current period of that timeframe: a trade in a
\* later period is not folded into the earlier trades' bucket.
C26_BucketOfCurrentPeriod ==
    \A symbol \in DOMAIN instrument_stats_ : \A i \in DOMAIN Timeframes :
        LET events == TradesOf(symbol)
            current == PeriodOf(Timeframes[i], events[Len(events)].timestamp)
        IN Summarizes(instrument_stats_[symbol].timeframes[Timeframes[i]],
                      TradesIn(symbol, Timeframes[i], current))

\* C23: when the statistics queue is full, a submit call returns false
\* without blocking the caller and the drop counter increases by one: a
\* submit call that finds no free cell in the queue is not left waiting for
\* one.
C23_FullQueueDropsWithoutBlocking ==
    \A p \in DOMAIN submits :
        submits[p] = "enqueue" => ppc[p] \notin {"wait", "parked"}

\* C24: when stop() returns, every trade event for which a submit call has
\* returned true has been folded into the statistics.
C24_DrainedWhenStopReturns ==
    stats_stop = "returned" =>
        \A item \in acknowledged_at_stop :
            \E i \in 1..Len(stats_log) : stats_log[i] = EventOf(item)

\* the statistics after the first n processed trade events
RECURSIVE StatsAfter(_)
StatsAfter(n) ==
    IF n = 0 THEN <<>>
    ELSE updateStatistics(StatsAfter(n - 1), stats_log[n].symbol,
                          stats_log[n].price, stats_log[n].quantity,
                          stats_log[n].timestamp)

\* C27: a snapshot returned by getStatsForSymbol or getAllStats never shows
\* a partially applied trade: every value returned is the statistics after
\* some number of wholly processed trade events, in every timeframe bucket
\* and in last_trade_price alike, whatever is written afterwards.
C27_SnapshotsShowWholeTrades ==
    \A i \in 1..Len(snapshots) :
        \E n \in 0..Len(stats_log) :
            snapshots[i].value = Returned(snapshots[i].call, StatsAfter(n))

\* C27 witness: a reader was returned the statistics of the first trade
\* event, and the collector has since begun to apply another trade event to
\* the same symbol.
C27_Witness ==
    /\ update_turn \in 2..Len(Timeframes)
    /\ Len(stats_log) >= 2
    /\ \E i \in 1..Len(snapshots) :
          /\ snapshots[i].call = stats_log[Len(stats_log)].symbol
          /\ snapshots[i].value = getStatsForSymbol(StatsAfter(1), snapshots[i].call)
          /\ snapshots[i].value # nullopt
          /\ snapshots[i].value # getStatsForSymbol(instrument_stats_, snapshots[i].call)

\* C28: a leaderboard request served while the subscriber thread applies a
\* trade sees each user entirely before or entirely after an applyExecution
\* call, and never reads the user map while it is being modified: every
\* entry a request has read is the cash balance and the positions of one
\* state the user had between calls, and no request has read users_ during
\* an insertion.
C28_LeaderboardSeesWholeExecutions ==
    /\ ~board_raced
    /\ \A i \in 1..Len(board) :
          \/ board[i] = NoEntry
          \/ \E u \in user_states :
                board[i] = BoardEntry(u.cash_balance_, u.symbol_to_position_)

\* the messages the bus has accepted of request i
MessagesOf(i) == {j \in 1..Len(bus_log) : bus_log[j].request = i}

\* C29: for every POST /order request at most one message is published;
\* the answer is 202 only when exactly one message with the userId as key
\* and the request body as value was accepted by the bus, 500 when publish
\* failed, and 400 with nothing published when the body is not JSON or has
\* no userId or no id.
C29_OrderRequestAnswers ==
    \A i \in 1..Len(http_log) :
        LET body == http_log[i].body
            response == http_log[i].response
        IN /\ Cardinality(MessagesOf(i)) <= 1
           /\ response.status_code = 202 =>
                 /\ Cardinality(MessagesOf(i)) = 1
                 /\ \A j \in MessagesOf(i) :
                       /\ bus_log[j].message.key = body.userId.value
                       /\ body.userId.type = "string"
                       /\ bus_log[j].message.value = body
                       /\ bus_log[j].message.topic = "order-requests"
           /\ response.publish_result = "failed" =>
                 response.status_code = 500 /\ MessagesOf(i) = {}
           /\ (~body.json \/ body.userId = Absent \/ body.id = Absent) =>
                 response.status_code = 400 /\ MessagesOf(i) = {}

\* C29 witness: one request was answered 202, one 500 and one 400 for a
\* body without id.
C29_Witness ==
    /\ \E i \in 1..Len(http_log) : http_log[i].response.status_code = 202
    /\ \E i \in 1..Len(http_log) : http_log[i].response.status_code = 500
    /\ \E i \in 1..Len(http_log) :
          /\ http_log[i].response.status_code = 400
          /\ http_log[i].body.json
          /\ http_log[i].body.id = Absent
          /\ http_log[i].body.userId.type = "string"

\* a message that does not parse or does not pass validation
Fails(msg) ==
    \/ ~msg.json
    \/ "quantity" \notin msg.members
    \/ "price" \notin msg.members
    \/ msg.type = "FOO"
    \/ msg.side = "HOLD"
    \/ msg.symbol = ""
    \/ msg.quantity < min_quantity_
    \/ msg.price < min_price_

\* C30: a bus message that fails parsing or validation is dropped without
\* effect: handling it creates or changes no order, no order book, no trade
\* and no user, and the subscriber keeps running and handles the messages
\* that follow: every message that does not fail has made its order.
C30_FailedMessageDropped ==
    /\ [](/\ subscriber_pc \in {"none", "running"}
          /\ msg_log # <<>> =>
                Len(orders) = Cardinality({i \in 1..Len(msg_log) : ~Fails(msg_log[i])}))
    /\ [][(msg_log' # msg_log /\ Fails(msg_log'[Len(msg_log')])) =>
             UNCHANGED <<orders, submitted, buy_orders_, sell_orders_, trades,
                         total_trades_, total_volume_, next_trade_id_, users_,
                         order_books_>>]_vars

\* C30 witness: a message with an unknown order type was dropped, and the
\* two messages that followed made orders that traded with each other.
C30_Witness ==
    /\ Len(msg_log) >= 3
    /\ \E i \in 1..Len(msg_log) : msg_log[i].type = "FOO" /\ i < Len(msg_log) - 1
    /\ ~Fails(msg_log[Len(msg_log)])
    /\ ~Fails(msg_log[Len(msg_log) - 1])
    /\ trades # <<>>
    /\ order_books_ = {BookSymbol}
    /\ subscriber_pc = "running"

\* C31: with the routes of setupCallbacks, a GET request for
\* /api/v1/stats/all is dispatched to the all-statistics handler and not to
\* the per-symbol statistics handler.
C31_StatsAllReachesItsHandler ==
    \A i \in 1..Len(route_log) :
        (/\ route_log[i].method = "GET"
         /\ route_log[i].path = <<"api", "v1", "stats", "all">>)
        => route_log[i].dispatch.handler = "handleAllStatsRequest"

\* the steps of start and of stop in the order of the claim, each one
\* ending before the next one begins
StartOrder ==
    BeginEnd("loggers") \o BeginEnd("http") \o BeginEnd("stats") \o BeginEnd("connect")
    \o BeginEnd("subscribe")

StopOrder == BeginEnd("http") \o BeginEnd("stats") \o BeginEnd("bus") \o BeginEnd("loggers")

StartsWith(whole, part) ==
    /\ Len(part) <= Len(whole)
    /\ SubSeq(whole, 1, Len(part)) = part

\* C32: TradingEngine::start brings up the loggers, the HTTP server, the
\* statistics collector, the bus connection and the bus subscription in
\* this order, and every call of TradingEngine::stop shuts down the HTTP
\* server, the statistics collector, the bus and the loggers in this
\* order; each step has ended before the next one begins.
C32_StartAndStopInOrder ==
    /\ StartsWith(StartOrder, start_log)
    /\ main_pc \in {"running", "loop", "exited"} => start_log = StartOrder
    /\ \A h \in Handlers :
          /\ StartsWith(StopOrder, stop_log[h])
          /\ handler_pc[h] = "done" /\ stop_log[h] # <<>> => stop_log[h] = StopOrder

\* started in full, and one call of stop went through all its steps
C32_Witness ==
    /\ start_log = StartOrder
    /\ \E h \in Handlers : stop_log[h] = StopOrder

\* the list of a price, empty when the map has no such key
LevelAt(levels, price) == IF price \in DOMAIN levels THEN levels[price] ELSE <<>>

\* one side of the book got the order at the back of the list of its price,
\* and nothing else moved
AppendedAt(before, after, order) ==
    /\ DOMAIN after = (DOMAIN before) \cup {order.price}
    /\ \A price \in DOMAIN after :
          LevelAt(after, price) =
             IF price = order.price
             THEN LevelAt(before, price) \o <<order.id>>
             ELSE LevelAt(before, price)

\* C33: addOrder returns false and leaves the book unchanged for a null
\* order, an order of another symbol, or a side that is neither BUY nor
\* SELL; otherwise it sets the status to PENDING and appends the order at
\* the back of the list of its price on its own side, every earlier order
\* staying where it was.
C33_AddOrderRejectsOrAppends ==
    \A i \in 1..Len(add_log) :
        \E e \in {add_log[i]} :
            IF e.order.null \/ e.order.symbol # BookSymbol
               \/ e.order.side \notin {"BUY", "SELL"}
            THEN /\ ~e.returned
                 /\ e.buy_after = e.buy_before
                 /\ e.sell_after = e.sell_before
            ELSE /\ e.returned
                 /\ e.status = "PENDING"
                 /\ IF e.order.side = "BUY"
                    THEN /\ AppendedAt(e.buy_before, e.buy_after, e.order)
                         /\ e.sell_after = e.sell_before
                    ELSE /\ AppendedAt(e.sell_before, e.sell_after, e.order)
                         /\ e.buy_after = e.buy_before

\* a SELL order that was FILLED joined the list of its price behind an
\* earlier order
C33_Witness ==
    /\ Len(add_log) = 2
    /\ add_log[2].returned
    /\ add_log[2].order.status = "FILLED"
    /\ add_log[2].order.side = "SELL"
    /\ LevelAt(add_log[2].sell_after, add_log[2].order.price) = <<1, 2>>

\* C34: when the trade callback is called for a trade, getTotalTrades() and
\* getTotalVolume() count the trades up to and including that one and no
\* later one, and the portfolio update of that trade has been applied.
C34_CallbackSeesTotalsOfItsTrade ==
    \A k \in 1..Len(last_match.callbacks) :
        \E before \in {Len(trades) - Len(last_match.trades)} :
            /\ last_match.callbacks[k].getTotalTrades = before + k
            /\ last_match.callbacks[k].getTotalVolume =
                  Volume(SubSeq(trades, 1, before + k))
            /\ last_match.callbacks[k].users =
                  updateUserPortfolios(last_match.portfolios[k],
                                       last_match.trades[k])

\* the four sinks of handleTrade, in the order of the claim
FourSinks == <<"log", "stats", "execute", "confirm">>

\* C35: every trade the matcher emits is given, in this order, to the trade
\* logger, the statistics collector, the execution sink and a confirmation
\* record; no trade skips a sink, also when it is emitted while the engine
\* is shutting down.
C35_EveryTradeReachesFourSinks ==
    \A i \in 1..Len(deliveries) :
        IF i < Len(deliveries) \/ message_pc \in {"poll", "exited"}
        THEN deliveries[i] = FourSinks
        ELSE StartsWith(FourSinks, deliveries[i])

\* C36: after SIGINT or SIGTERM is delivered, on whichever thread and at
\* whatever point of execution, the stop sequence runs to completion exactly
\* once and the main loop exits (a start that fails ends main without it).
C36_SignalStopsOnceAndMainExits ==
    /\ [](stops_completed <= 1)
    /\ (\E h \in Handlers : handler_pc[h] # "idle")
          ~> (\/ main_pc = "failed"
              \/ main_pc = "exited" /\ stops_completed = 1)

\* C38: when HttpServer::stop() has returned, no client request is queued
\* or running in the pool of the server, and so no handler of POST /order
\* calls publish while or after QueueClient::disconnect runs.
C38_NoRequestOutlivesHttpStop ==
    /\ HttpStopReturned => pool_queued = 0 /\ client_pc = "idle"
    /\ \A i \in 1..Len(publishes) : ~publishes[i].disconnecting

\* C37: for every capacity the constructor accepts, capacity 1 included, a
\* producer never writes into a cell whose previous value the consumer has
\* not taken yet: a producer that is about to construct its value finds
\* the cell empty.
C37_NoWriteIntoFullCell ==
    \A p \in Producers :
        ppc[p] = "construct" => storage[Cell(ppos[p])] = NoValue

RECURSIVE SumCash(_, _)
\* the cash balances of the users in ids, added up
SumCash(users, ids) ==
    IF ids = {} THEN 0
    ELSE LET u == CHOOSE id \in ids : TRUE
         IN users[u].cash_balance_ + SumCash(users, ids \ {u})

RECURSIVE SumHeld(_, _)
\* the quantities the users in ids hold of the symbol of the book, added up
SumHeld(users, ids) ==
    IF ids = {} THEN 0
    ELSE LET u == CHOOSE id \in ids : TRUE
         IN (IF BookSymbol \in DOMAIN users[u].symbol_to_position_
             THEN users[u].symbol_to_position_[BookSymbol].quantity ELSE 0)
            + SumHeld(users, ids \ {u})

\* the BUY leg and then the SELL leg of a trade both return true
BothLegsSucceed(users, trade) ==
    \E buyer \in {applyExecution(users[trade.buy_user_id], "BUY", BookSymbol,
                                 trade.quantity, trade.price, 0)} :
        /\ buyer.ok
        /\ applyExecution([users EXCEPT ![trade.buy_user_id] = buyer.user]
                             [trade.sell_user_id],
                          "SELL", BookSymbol, trade.quantity, trade.price, 0).ok

\* the trades of the last match whose two legs succeeded, by their number
SettledTrades ==
    {k \in 1..Len(last_match.trades) :
        /\ {last_match.trades[k].buy_user_id, last_match.trades[k].sell_user_id}
              \subseteq DOMAIN last_match.portfolios[k]
        /\ BothLegsSucceed(last_match.portfolios[k], last_match.trades[k])}

\* how much the quantities of all users changed over the k-th trade
QuantityChange(k) ==
    SumHeld(last_match.portfolios[k + 1], DOMAIN last_match.portfolios[k + 1])
    - SumHeld(last_match.portfolios[k], DOMAIN last_match.portfolios[k])

====
